---- MODULE Spec2Model ----
(***************************************************************************)
(* Model of the photobooth grid composition engine                         *)
(* (frontend/src/utils/imageComposite.js): the page-size resolver          *)
(* getPageSizeFromGrid and the asynchronous compositor                     *)
(* createGridComposite.                                                    *)
(*                                                                         *)
(* JavaScript numbers that are not integers (inches, aspect ratios, draw   *)
(* rectangles) are modelled as exact rationals <<n, d>> with d > 0 in      *)
(* lowest terms.  On the inputs of this model the rounded values (page     *)
(* size, cell size, margin, canvas size in pixels) are those IEEE doubles  *)
(* give; draw rectangles are the exact values the doubles approximate.     *)
(* Array indices are 0-based as in the source: arrays are functions on     *)
(* 0 .. length-1.                                                          *)
(***************************************************************************)
EXTENDS Integers, Sequences, FiniteSets, TLC

(***************************************************************************)
(* Bounds of the model.                                                    *)
(***************************************************************************)
\* largest cols / rows of a grid handed to getPageSizeFromGrid
PageMaxDim == 4
\* largest cols and rows of a grid handed to createGridComposite
MaxCols == 3
MaxRows == 2
\* longest photo list handed to createGridComposite
MaxPhotos == 6
\* most session ids generated in one run
MaxSessionIds == 3
\* most screenshots taken on the camera screen in one run
MaxShots == 6
\* most photos of a session that is edited
MaxEditPhotos == 2
\* most times the print button is pressed in one run
MaxPrints == 2

(***************************************************************************)
(* Exact rational arithmetic standing for JavaScript's Number arithmetic.  *)
(***************************************************************************)
Abs(x) == IF x < 0 THEN 0 - x ELSE x

RECURSIVE GCD(_, _)
GCD(a, b) == IF b = 0 THEN a ELSE GCD(b, a % b)

\* the rational n/d (d # 0) in lowest terms with a positive denominator
Rat(n, d) ==
  LET s  == IF d < 0 THEN 0 - 1 ELSE 1
      nn == s * n
      dd == s * d
      g  == GCD(Abs(nn), dd)
  IN  <<nn \div g, dd \div g>>

RInt(k) == <<k, 1>>
RAdd(a, b) == Rat(a[1] * b[2] + b[1] * a[2], a[2] * b[2])
RSub(a, b) == Rat(a[1] * b[2] - b[1] * a[2], a[2] * b[2])
RMul(a, b) == Rat(a[1] * b[1], a[2] * b[2])
RDiv(a, b) == Rat(a[1] * b[2], a[2] * b[1])
RLt(a, b) == a[1] * b[2] < b[1] * a[2]
RGt(a, b) == RLt(b, a)
\* Math.abs, Math.min, Math.max
MathAbs(a) == <<Abs(a[1]), a[2]>>
MathMin(a, b) == IF RLt(b, a) THEN b ELSE a
MathMax(a, b) == IF RGt(b, a) THEN b ELSE a
\* Math.round: the integer nearest to a, halves rounded up (floor(a + 1/2))
MathRound(a) == (2 * a[1] + a[2]) \div (2 * a[2])

(***************************************************************************)
(* Grids.  A grid argument is null, a string (taken as the id), or an      *)
(* object whose fields id, cols and rows may each be missing.              *)
(***************************************************************************)
NullGrid == [kind |-> "null"]
StringGrid(s) == [kind |-> "string", str |-> s]
Has(obj, f) == f \in DOMAIN obj

\* the ids of the catalog, and one id that is not in it
CatalogIds == {"5x5-single", "4x6-single", "2x4-vertical-2", "4x6-4cut", "5x7-6cut"}
GridIds == CatalogIds \cup {"custom"}

\* object grids with an id of idSet, cols in 0..mc and rows in 0..mr, each
\* field present or not
ObjectGrids(idSet, mc, mr) ==
  LET base == [kind |-> "object"]
      ids  == {[f \in {} |-> 0]} \cup {[id |-> s] : s \in idSet}
      cs   == {[f \in {} |-> 0]} \cup {[cols |-> c] : c \in 0..mc}
      rs   == {[f \in {} |-> 0]} \cup {[rows |-> r] : r \in 0..mr}
  IN  {base @@ i @@ c @@ r : i \in ids, c \in cs, r \in rs}

\* grid.cols, grid.rows: 0 stands for undefined where only truthiness is read
GridCols(grid) == IF grid.kind = "object" /\ Has(grid, "cols") THEN grid.cols ELSE 0
GridRows(grid) == IF grid.kind = "object" /\ Has(grid, "rows") THEN grid.rows ELSE 0

(***************************************************************************)
(* getPageSizeFromGrid                                                     *)
(***************************************************************************)
PageSize(w, h, label) == [widthInches |-> w, heightInches |-> h, pageSize |-> label]

\* const gridToPageSize = {...}
gridToPageSize ==
  [id \in CatalogIds |->
     CASE id = "5x5-single"     -> PageSize(5, 5, "5x5")
       [] id = "4x6-single"     -> PageSize(4, 6, "4x6")
       [] id = "2x4-vertical-2" -> PageSize(2, 4, "2x4")
       [] id = "4x6-4cut"       -> PageSize(4, 6, "4x6")
       [] id = "5x7-6cut"       -> PageSize(5, 7, "5x7")]

\* const standardSizes = [...] (0-based)
standardSizes ==
  [i \in 0..3 |->
     CASE i = 0 -> [w |-> 2, h |-> 4, name |-> "2x4"]
       [] i = 1 -> [w |-> 4, h |-> 6, name |-> "4x6"]
       [] i = 2 -> [w |-> 5, h |-> 7, name |-> "5x7"]
       [] i = 3 -> [w |-> 8, h |-> 10, name |-> "8x10"]]

\* Math.abs(widthInches - size.w) + Math.abs(heightInches - size.h)
SizeDiff(widthInches, heightInches, size) ==
  RAdd(MathAbs(RSub(widthInches, RInt(size.w))),
       MathAbs(RSub(heightInches, RInt(size.h))))

\* const gridId = typeof grid === 'string' ? grid : grid.id
GridIdOf(grid) ==
  IF grid.kind = "string" THEN <<grid.str>>
  ELSE IF Has(grid, "id") THEN <<grid.id>> ELSE <<>>

\* if (gridToPageSize[gridId]) : the id is a key of the catalog
IdMatches(gridId) == gridId # <<>> /\ gridId[1] \in DOMAIN gridToPageSize

\* variant: a later size at the same distance replaces the earlier one
\* (diff <= minDiff)
RECURSIVE ClosestFrom_LastWins(_, _, _, _)
ClosestFrom_LastWins(i, acc, widthInches, heightInches) ==
  IF i \notin DOMAIN standardSizes THEN acc
  ELSE LET size == standardSizes[i]
           diff == SizeDiff(widthInches, heightInches, size)
           nxt  == IF ~RLt(acc.minDiff, diff)
                     THEN [closest |-> size, minDiff |-> diff]
                     ELSE acc
       IN  ClosestFrom_LastWins(i + 1, nxt, widthInches, heightInches)

\* standardSizes.forEach(size => { if (diff < minDiff) {...} }) from index i on;
\* acc = [closest, minDiff]
RECURSIVE ClosestFrom(_, _, _, _)
ClosestFrom(i, acc, widthInches, heightInches) ==
  IF i \notin DOMAIN standardSizes THEN acc
  ELSE LET size == standardSizes[i]
           diff == SizeDiff(widthInches, heightInches, size)
           nxt  == IF RLt(diff, acc.minDiff)
                     THEN [closest |-> size, minDiff |-> diff]
                     ELSE acc
       IN  ClosestFrom(i + 1, nxt, widthInches, heightInches)

\* variant: the estimated page is returned under the label of the nearest size
NearestStandardSize_RawEstimate(grid) ==
  LET cols == IF GridCols(grid) # 0 THEN GridCols(grid) ELSE 1
      rows == IF GridRows(grid) # 0 THEN GridRows(grid) ELSE 1
      widthInches  == RAdd(RInt(2 * cols), RMul(Rat(1, 10), RInt(cols - 1)))
      heightInches == RAdd(RInt(3 * rows), RMul(Rat(1, 10), RInt(rows - 1)))
      start == [closest |-> standardSizes[0],
                minDiff |-> SizeDiff(widthInches, heightInches, standardSizes[0])]
      closest == ClosestFrom(0, start, widthInches, heightInches).closest
  IN  PageSize(MathRound(widthInches), MathRound(heightInches), closest.name)

\* lines 29-66: the size nearest to the estimated page of cols x rows cells
NearestStandardSize(grid) ==
  LET cols == IF GridCols(grid) # 0 THEN GridCols(grid) ELSE 1
      rows == IF GridRows(grid) # 0 THEN GridRows(grid) ELSE 1
      cellWidth  == RInt(2)
      cellHeight == RInt(3)
      margin == Rat(1, 10)
      widthInches  == RAdd(RMul(cellWidth, RInt(cols)), RMul(margin, RInt(cols - 1)))
      heightInches == RAdd(RMul(cellHeight, RInt(rows)), RMul(margin, RInt(rows - 1)))
      start == [closest |-> standardSizes[0],
                minDiff |-> SizeDiff(widthInches, heightInches, standardSizes[0])]
      closest == ClosestFrom(0, start, widthInches, heightInches).closest
  IN  PageSize(closest.w, closest.h, closest.name)

\* variant: the shape is consulted before the id
getPageSizeFromGrid_NearestFirst(grid) ==
  IF grid.kind = "null" THEN PageSize(4, 6, "4x6")
  ELSE IF GridCols(grid) # 0 /\ GridRows(grid) # 0 THEN NearestStandardSize(grid)
  ELSE IF IdMatches(GridIdOf(grid)) THEN gridToPageSize[GridIdOf(grid)[1]]
  ELSE NearestStandardSize(grid)

getPageSizeFromGrid(grid) ==
  IF grid.kind = "null" THEN PageSize(4, 6, "4x6")
  ELSE IF IdMatches(GridIdOf(grid)) THEN gridToPageSize[GridIdOf(grid)[1]]
  ELSE NearestStandardSize(grid)

(***************************************************************************)
(* createGridComposite: arguments                                          *)
(***************************************************************************)
\* the photos argument: null, or an array of n data URLs; the data URL of
\* the photo at index i is named by i itself
NullPhotos == [kind |-> "null"]
PhotoArray(n) == [kind |-> "array", srcs |-> [i \in 0..(n - 1) |-> i]]
PhotoLists == {NullPhotos} \cup {PhotoArray(n) : n \in 0..MaxPhotos}
PhotosLength(photos) == Cardinality(DOMAIN photos.srcs)

\* maxCellWidth: null (the default) or a number of inches
NullNumber == [kind |-> "null"]
Inches(r) == [kind |-> "number", value |-> r]

\* (dpi, marginPercent, maxCellWidth): the defaults, the call of
\* EditScreen.handleNext (300, 3), and a call giving every argument
RenderOptions ==
  { [dpi |-> 300, marginPercent |-> 2, maxCellWidth |-> NullNumber],
    [dpi |-> 300, marginPercent |-> 3, maxCellWidth |-> NullNumber],
    [dpi |-> 150, marginPercent |-> 10, maxCellWidth |-> Inches(RInt(3))] }

\* the grid arguments of createGridComposite: the multi-photo layouts of the
\* grid-selection screen and grids without id, in every shape
CompositeIds == {"2x4-vertical-2", "4x6-4cut", "5x7-6cut"}
CompositeGrids ==
  {NullGrid} \cup {StringGrid(s) : s \in {"4x6-4cut"}}
    \cup ObjectGrids(CompositeIds, MaxCols, MaxRows)

\* natural (width, height) of a decoded photo: wide, tall and square
ImageDims == {<<4, 3>>, <<3, 4>>, <<2, 2>>}
\* the natural sizes of the photos of a request, by data URL
ImageSizes(photos) == [DOMAIN photos.srcs -> ImageDims]

(***************************************************************************)
(* createGridComposite: lines 87-111, the checks and maxCellWidth          *)
(***************************************************************************)
NoError == [name |-> "none"]
NoPhotosError == [name |-> "Error", message |-> "No photos provided"]
InvalidGridError == [name |-> "Error", message |-> "Invalid grid configuration"]
CountError(totalCells, got) ==
  [name |-> "Error", message |-> "Expected photos", expected |-> totalCells, got |-> got]

\* variant: the photo count is not compared with the cell count
Validate_NoCountCheck(photos, grid) ==
  IF photos.kind = "null" \/ PhotosLength(photos) = 0 THEN NoPhotosError
  ELSE IF grid.kind = "null" \/ GridCols(grid) = 0 \/ GridRows(grid) = 0
    THEN InvalidGridError
  ELSE NoError

\* variant: the grid is checked before the photo list
Validate_GridFirst(photos, grid) ==
  IF grid.kind = "null" \/ GridCols(grid) = 0 \/ GridRows(grid) = 0
    THEN InvalidGridError
  ELSE IF photos.kind = "null" \/ PhotosLength(photos) = 0 THEN NoPhotosError
  ELSE IF PhotosLength(photos) # GridCols(grid) * GridRows(grid)
    THEN CountError(GridCols(grid) * GridRows(grid), PhotosLength(photos))
  ELSE NoError

\* lines 88-99: the error thrown by the checks, NoError when they pass
Validate(photos, grid) ==
  IF photos.kind = "null" \/ PhotosLength(photos) = 0 THEN NoPhotosError
  ELSE IF grid.kind = "null" \/ GridCols(grid) = 0 \/ GridRows(grid) = 0
    THEN InvalidGridError
  ELSE IF PhotosLength(photos) # GridCols(grid) * GridRows(grid)
    THEN CountError(GridCols(grid) * GridRows(grid), PhotosLength(photos))
  ELSE NoError

\* variant: only the page width bounds the cell
EffectiveMaxCellWidth_WidthOnly(grid, maxCellWidth) ==
  IF maxCellWidth.kind = "null"
    THEN LET pageConfig == getPageSizeFromGrid(grid)
             availableWidth ==
               RSub(RInt(pageConfig.widthInches), RMul(Rat(1, 10), RInt(grid.cols - 1)))
         IN  RDiv(availableWidth, RInt(grid.cols))
    ELSE maxCellWidth.value

\* lines 105-111: maxCellWidth as used after the checks
EffectiveMaxCellWidth(grid, maxCellWidth) ==
  IF maxCellWidth.kind = "null"
    THEN LET pageConfig == getPageSizeFromGrid(grid)
             marginInches == Rat(1, 10)
             availableWidth ==
               RSub(RInt(pageConfig.widthInches), RMul(marginInches, RInt(grid.cols - 1)))
             availableHeight ==
               RSub(RInt(pageConfig.heightInches), RMul(marginInches, RInt(grid.rows - 1)))
         IN  MathMin(RDiv(availableWidth, RInt(grid.cols)),
                     RDiv(availableHeight, RInt(grid.rows)))
    ELSE maxCellWidth.value

(***************************************************************************)
(* createGridComposite: lines 126-229, the layout and the drawing          *)
(***************************************************************************)
\* a decoded Image element: the photo it was created for and its size
Img(src, dims) == [src |-> src, width |-> dims[1], height |-> dims[2]]
\* the Image elements elems with the natural sizes of their photos, which the
\* code first reads at line 136
Sized(elems, sizes) == [i \in DOMAIN elems |-> Img(elems[i].src, sizes[elems[i].src])]

\* variant: reading order (row-major)
ColOf_RowMajor(index, grid) == index % grid.cols

\* lines 132-133 and 192-193: the cell of the photo at index
RowOf(index, grid) == index % grid.rows
ColOf(index, grid) == index \div grid.rows

\* lines 131-149: images.forEach filling the Map cellDimensions, modelled as
\* the sequence of its entries in insertion order
RECURSIVE CellDimensionsFrom(_, _, _, _, _)
CellDimensionsFrom(index, entries, images, grid, maxCellWidth) ==
  IF index \notin DOMAIN images THEN entries
  ELSE
    LET img == images[index]
        cellKey == <<ColOf(index, grid), RowOf(index, grid)>>
        imgAspect == Rat(img.width, img.height)
        wide == RGt(imgAspect, RInt(1))
        hit == {k \in DOMAIN entries : entries[k].key = cellKey}
        nxt ==
          IF hit = {}
            THEN Append(entries,
                   [key |-> cellKey,
                    aspect |-> imgAspect,
                    minWidth |-> IF wide THEN maxCellWidth ELSE RDiv(maxCellWidth, imgAspect),
                    minHeight |-> IF wide THEN RDiv(maxCellWidth, imgAspect) ELSE maxCellWidth])
            ELSE [k \in DOMAIN entries |->
                   IF k \in hit
                     THEN [entries[k] EXCEPT !.aspect = MathMax(@, imgAspect)]
                     ELSE entries[k]]
    IN  CellDimensionsFrom(index + 1, nxt, images, grid, maxCellWidth)

\* lines 152-163: cellDimensions.forEach widening the uniform cell;
\* acc = [maxCellWidthInches, maxCellHeightInches]
RECURSIVE CellInchesFrom(_, _, _, _)
CellInchesFrom(k, acc, entries, maxCellWidth) ==
  IF k \notin DOMAIN entries THEN acc
  ELSE
    LET dims == entries[k]
        nxt ==
          IF RGt(dims.aspect, RInt(1))
            THEN [acc EXCEPT !.maxCellHeightInches =
                    MathMax(@, RDiv(maxCellWidth, dims.aspect))]
            ELSE [acc EXCEPT !.maxCellWidthInches =
                    MathMax(@, RMul(maxCellWidth, dims.aspect))]
    IN  CellInchesFrom(k + 1, nxt, entries, maxCellWidth)

\* variant: the canvas has margins between the cells only, none around them
Layout_NoOuterMargin(images, grid, dpi, marginPercent, maxCellWidth) ==
  LET cellDimensions == CellDimensionsFrom(0, <<>>, images, grid, maxCellWidth)
      inches == CellInchesFrom(1,
                  [maxCellWidthInches |-> maxCellWidth, maxCellHeightInches |-> maxCellWidth],
                  cellDimensions, maxCellWidth)
      cellWidthPx  == MathRound(RMul(inches.maxCellWidthInches, RInt(dpi)))
      cellHeightPx == MathRound(RMul(inches.maxCellHeightInches, RInt(dpi)))
      smaller == IF cellHeightPx < cellWidthPx THEN cellHeightPx ELSE cellWidthPx
      marginSize == MathRound(RMul(RInt(smaller), Rat(marginPercent, 100)))
  IN  [maxCellWidthInches  |-> inches.maxCellWidthInches,
       maxCellHeightInches |-> inches.maxCellHeightInches,
       cellWidthPx  |-> cellWidthPx,
       cellHeightPx |-> cellHeightPx,
       marginSize   |-> marginSize,
       canvasWidth  |-> cellWidthPx * grid.cols + marginSize * (grid.cols - 1),
       canvasHeight |-> cellHeightPx * grid.rows + marginSize * (grid.rows - 1)]

\* variant: the cell is as large as the largest candidate of lines 139-147
\* (a wide photo's height candidate maxCellWidth / aspect, a tall photo's
\* width candidate maxCellWidth * aspect, never less than nothing at all)
Layout_FromPhotoSizes(images, grid, dpi, marginPercent, maxCellWidth) ==
  LET cellDimensions == CellDimensionsFrom(0, <<>>, images, grid, maxCellWidth)
      wides == {k \in DOMAIN cellDimensions : RGt(cellDimensions[k].aspect, RInt(1))}
      talls == {k \in DOMAIN cellDimensions : RLt(cellDimensions[k].aspect, RInt(1))}
      widthIn  == IF talls = {} THEN maxCellWidth
                  ELSE RMul(maxCellWidth, cellDimensions[CHOOSE k \in talls : TRUE].aspect)
      heightIn == IF wides = {} THEN maxCellWidth
                  ELSE RDiv(maxCellWidth, cellDimensions[CHOOSE k \in wides : TRUE].aspect)
      cellWidthPx  == MathRound(RMul(widthIn, RInt(dpi)))
      cellHeightPx == MathRound(RMul(heightIn, RInt(dpi)))
      smaller == IF cellHeightPx < cellWidthPx THEN cellHeightPx ELSE cellWidthPx
      marginSize == MathRound(RMul(RInt(smaller), Rat(marginPercent, 100)))
  IN  [maxCellWidthInches  |-> widthIn,
       maxCellHeightInches |-> heightIn,
       cellWidthPx  |-> cellWidthPx,
       cellHeightPx |-> cellHeightPx,
       marginSize   |-> marginSize,
       canvasWidth  |-> marginSize + (cellWidthPx + marginSize) * grid.cols,
       canvasHeight |-> marginSize + (cellHeightPx + marginSize) * grid.rows]

\* lines 126-176: cell size, margin and canvas size in pixels
Layout(images, grid, dpi, marginPercent, maxCellWidth) ==
  LET cellDimensions == CellDimensionsFrom(0, <<>>, images, grid, maxCellWidth)
      inches == CellInchesFrom(1,
                  [maxCellWidthInches |-> maxCellWidth, maxCellHeightInches |-> maxCellWidth],
                  cellDimensions, maxCellWidth)
      cellWidthPx  == MathRound(RMul(inches.maxCellWidthInches, RInt(dpi)))
      cellHeightPx == MathRound(RMul(inches.maxCellHeightInches, RInt(dpi)))
      smaller == IF cellHeightPx < cellWidthPx THEN cellHeightPx ELSE cellWidthPx
      marginSize == MathRound(RMul(RInt(smaller), Rat(marginPercent, 100)))
  IN  [maxCellWidthInches  |-> inches.maxCellWidthInches,
       maxCellHeightInches |-> inches.maxCellHeightInches,
       cellWidthPx  |-> cellWidthPx,
       cellHeightPx |-> cellHeightPx,
       marginSize   |-> marginSize,
       canvasWidth  |-> marginSize + (cellWidthPx + marginSize) * grid.cols,
       canvasHeight |-> marginSize + (cellHeightPx + marginSize) * grid.rows]

\* variant: the photo is stretched over its whole cell
DrawImage_Stretch(img, index, grid, lay) ==
  LET cellX == lay.marginSize + ColOf(index, grid) * (lay.cellWidthPx + lay.marginSize)
      cellY == lay.marginSize + RowOf(index, grid) * (lay.cellHeightPx + lay.marginSize)
  IN  [img |-> img,
       sx |-> 0, sy |-> 0, sWidth |-> img.width, sHeight |-> img.height,
       cellX |-> cellX, cellY |-> cellY,
       drawX |-> RInt(cellX), drawY |-> RInt(cellY),
       drawWidth |-> RInt(lay.cellWidthPx), drawHeight |-> RInt(lay.cellHeightPx)]

\* variant: the photo is scaled to cover its cell (the comparison of the
\* aspect ratios is reversed)
DrawImage_Cover(img, index, grid, lay) ==
  LET cellX == lay.marginSize + ColOf(index, grid) * (lay.cellWidthPx + lay.marginSize)
      cellY == lay.marginSize + RowOf(index, grid) * (lay.cellHeightPx + lay.marginSize)
      imgAspect == Rat(img.width, img.height)
      cellAspect == Rat(lay.cellWidthPx, lay.cellHeightPx)
      fitWidth == RLt(imgAspect, cellAspect)
      drawWidth  == IF fitWidth THEN RInt(lay.cellWidthPx)
                    ELSE RMul(RInt(lay.cellHeightPx), imgAspect)
      drawHeight == IF fitWidth THEN RDiv(RInt(lay.cellWidthPx), imgAspect)
                    ELSE RInt(lay.cellHeightPx)
      drawX == IF fitWidth THEN RInt(cellX)
               ELSE RAdd(RInt(cellX), RDiv(RSub(RInt(lay.cellWidthPx), drawWidth), RInt(2)))
      drawY == IF fitWidth
                 THEN RAdd(RInt(cellY), RDiv(RSub(RInt(lay.cellHeightPx), drawHeight), RInt(2)))
                 ELSE RInt(cellY)
  IN  [img |-> img,
       sx |-> 0, sy |-> 0, sWidth |-> img.width, sHeight |-> img.height,
       cellX |-> cellX, cellY |-> cellY,
       drawX |-> drawX, drawY |-> drawY,
       drawWidth |-> drawWidth, drawHeight |-> drawHeight]

\* variant: the photo is fitted but not centred (drawn from the cell origin)
DrawImage_TopLeft(img, index, grid, lay) ==
  LET cellX == lay.marginSize + ColOf(index, grid) * (lay.cellWidthPx + lay.marginSize)
      cellY == lay.marginSize + RowOf(index, grid) * (lay.cellHeightPx + lay.marginSize)
      imgAspect == Rat(img.width, img.height)
      cellAspect == Rat(lay.cellWidthPx, lay.cellHeightPx)
      fitWidth == RGt(imgAspect, cellAspect)
  IN  [img |-> img,
       sx |-> 0, sy |-> 0, sWidth |-> img.width, sHeight |-> img.height,
       cellX |-> cellX, cellY |-> cellY,
       drawX |-> RInt(cellX), drawY |-> RInt(cellY),
       drawWidth |-> IF fitWidth THEN RInt(lay.cellWidthPx)
                     ELSE RMul(RInt(lay.cellHeightPx), imgAspect),
       drawHeight |-> IF fitWidth THEN RDiv(RInt(lay.cellWidthPx), imgAspect)
                      ELSE RInt(lay.cellHeightPx)]

\* variant: the cells are laid out edge to edge after the outer margin, with
\* no margin between neighbours
DrawImage_NoGutter(img, index, grid, lay) ==
  LET cellX == lay.marginSize + ColOf(index, grid) * lay.cellWidthPx
      cellY == lay.marginSize + RowOf(index, grid) * lay.cellHeightPx
      imgAspect == Rat(img.width, img.height)
      cellAspect == Rat(lay.cellWidthPx, lay.cellHeightPx)
      fitWidth == RGt(imgAspect, cellAspect)
      drawWidth  == IF fitWidth THEN RInt(lay.cellWidthPx)
                    ELSE RMul(RInt(lay.cellHeightPx), imgAspect)
      drawHeight == IF fitWidth THEN RDiv(RInt(lay.cellWidthPx), imgAspect)
                    ELSE RInt(lay.cellHeightPx)
  IN  [img |-> img,
       sx |-> 0, sy |-> 0, sWidth |-> img.width, sHeight |-> img.height,
       cellX |-> cellX, cellY |-> cellY,
       drawX |-> IF fitWidth THEN RInt(cellX)
                 ELSE RAdd(RInt(cellX), RDiv(RSub(RInt(lay.cellWidthPx), drawWidth), RInt(2))),
       drawY |-> IF fitWidth
                   THEN RAdd(RInt(cellY), RDiv(RSub(RInt(lay.cellHeightPx), drawHeight), RInt(2)))
                   ELSE RInt(cellY),
       drawWidth |-> drawWidth, drawHeight |-> drawHeight]

\* lines 190-225: the drawImage call for the image at index
DrawImage(img, index, grid, lay) ==
  LET row == RowOf(index, grid)
      col == ColOf(index, grid)
      cellX == lay.marginSize + col * (lay.cellWidthPx + lay.marginSize)
      cellY == lay.marginSize + row * (lay.cellHeightPx + lay.marginSize)
      imgAspect == Rat(img.width, img.height)
      cellAspect == Rat(lay.cellWidthPx, lay.cellHeightPx)
      fitWidth == RGt(imgAspect, cellAspect)
      drawWidth  == IF fitWidth THEN RInt(lay.cellWidthPx)
                    ELSE RMul(RInt(lay.cellHeightPx), imgAspect)
      drawHeight == IF fitWidth THEN RDiv(RInt(lay.cellWidthPx), imgAspect)
                    ELSE RInt(lay.cellHeightPx)
      drawX == IF fitWidth THEN RInt(cellX)
               ELSE RAdd(RInt(cellX), RDiv(RSub(RInt(lay.cellWidthPx), drawWidth), RInt(2)))
      drawY == IF fitWidth
                 THEN RAdd(RInt(cellY), RDiv(RSub(RInt(lay.cellHeightPx), drawHeight), RInt(2)))
                 ELSE RInt(cellY)
  IN  [img |-> img,
       sx |-> 0, sy |-> 0, sWidth |-> img.width, sHeight |-> img.height,
       cellX |-> cellX, cellY |-> cellY,
       drawX |-> drawX, drawY |-> drawY,
       drawWidth |-> drawWidth, drawHeight |-> drawHeight]

\* images.forEach(...) of line 190: the drawImage calls, in call order
DrawAll(images, grid, lay) ==
  [index \in DOMAIN images |-> DrawImage(images[index], index, grid, lay)]

(***************************************************************************)
(* State                                                                   *)
(***************************************************************************)
VARIABLES
  psArg,        \* <<grid>>: the argument of the last getPageSizeFromGrid call
  psResult,     \* <<page size>>: what that call returned
  psAgain,      \* <<page size>>: what a repeated call with psArg returned
  pc,           \* the createGridComposite call: "idle", "awaiting" (suspended
                \* at await Promise.all), "resolved", "rejected"
  req,          \* its arguments [photos, grid, dpi, marginPercent, maxCellWidth]
  cellInches,   \* the local maxCellWidth after line 111, <<>> before
  decode,       \* per photo index, the Image element: "pending", "loaded", "error"
  values,       \* the values array of Promise.all: <<>> or <<Image element>>
                \* per index
  layout,       \* <<the locals maxCellWidthInches .. canvasHeight of lines
                \* 152-176>>, <<>> before they are computed
  resolvedBy,   \* <<b>> once Promise.all has resolved, b telling whether the load
                \* event that resolved it was that of the first photo (index 0);
                \* <<>> before (kept for reference only)
  canvas,       \* the canvas element created at line 179, <<>> if none
  draws,        \* the drawImage calls made on it, by call order
  result,       \* the data URL the call resolved with, <<>> if none
  error,        \* what the call rejected with, NoError if nothing
  earlier       \* <<the request and the outcome of the first call that
                \* resolved>>, once a later call has been made; <<>> before
                \* (kept for reference only: the code keeps nothing of a call)

VARIABLES
  route,        \* the path the HashRouter shows: the screen that is mounted
  session,      \* App's sessionData
  effectDue,    \* WelcomeScreen's effect has to run: the screen has just been
                \* mounted, or was rendered with another updateSession
  idsIssued,    \* how many session ids have been generated so far; the next
                \* one (Date.now() and a random suffix) differs from them all
  cashError,    \* CashPassword's error state is set
  selected,     \* GridSelection's selected state
  capturedPhotos, \* CameraSettings' capturedPhotos state: the photos, each named
                \* by the number of the screenshot it was made from
  loading,      \* the Image elements of handleCapture that have not fired
                \* their load event yet, each with the capturedPhotos and
                \* totalCells its onload closure holds
  shots,        \* how many screenshots have been taken
  editTimers,   \* how many setTimeout(() => navigate('/edit'), 500) are pending
  currentPhotoIndex, \* EditScreen's currentPhotoIndex state
  allEditedPhotos,   \* EditScreen's allEditedPhotos state: the indices that have
                \* an edited photo
  editSaves,    \* the saveCurrentPhoto calls suspended at their await, each
                \* with the state its closure holds
  finalPhotos,  \* <<the local finalPhotos>> of a handleNext suspended at
                \* await createGridComposite, <<>> if there is none
  savedFilenames, \* ShareScreen's savedFilenames state
  saveFetches,  \* how many save-photo requests of the auto-save effect are
                \* in flight
  filesSaved,   \* how many files the server has stored
  printCalls,   \* the handlePrint calls suspended before their print request,
                \* each with the savedFilenames its closure holds
  printRequests, \* the bodies of the print-photo requests sent, in order
  pageSizeConfig, \* ShareScreen's pageSizeConfig state
  printStatus   \* ShareScreen's printStatus state

psVars == <<psArg, psResult, psAgain>>
cgVars == <<pc, req, cellInches, decode, values, layout, resolvedBy, canvas, draws,
           result, error, earlier>>
appVars == <<route, session, effectDue, idsIssued>>
payVars == <<cashError, selected>>
camVars == <<capturedPhotos, loading, shots, editTimers>>
editVars == <<currentPhotoIndex, allEditedPhotos, editSaves, finalPhotos>>
shareVars == <<savedFilenames, saveFetches, filesSaved, printCalls, printRequests,
              pageSizeConfig, printStatus>>
uiVars == <<route, session, effectDue, idsIssued, cashError, selected,
            capturedPhotos, loading, shots, editTimers,
            currentPhotoIndex, allEditedPhotos, editSaves, finalPhotos,
            savedFilenames, saveFetches, filesSaved, printCalls, printRequests,
            pageSizeConfig, printStatus>>
vars == <<psArg, psResult, psAgain, pc, req, cellInches, decode, values, layout,
          resolvedBy, canvas, draws, result, error, earlier,
          route, session, effectDue, idsIssued, cashError, selected,
          capturedPhotos, loading, shots, editTimers,
          currentPhotoIndex, allEditedPhotos, editSaves, finalPhotos,
          savedFilenames, saveFetches, filesSaved, printCalls, printRequests,
          pageSizeConfig, printStatus>>

NoRequest == [kind |-> "none"]
Empty == [i \in {} |-> 0]

(***************************************************************************)
(* App: the session and the routes                                         *)
(***************************************************************************)
\* JavaScript's undefined and null; a string; a number
Undefined == [kind |-> "undefined"]
Null == [kind |-> "null"]
Text(s) == [kind |-> "string", s |-> s]
Number(n) == [kind |-> "number", n |-> n]
\* the n-th session id generated: `session_${Date.now()}_${random}`
SessionId(n) == [kind |-> "sessionId", n |-> n]

\* useState({...}) of App: the first sessionData; a key that is absent reads
\* as undefined
InitialSession ==
  [sessionId |-> Null, capturedPhoto |-> Null, editedPhoto |-> Null,
   paymentStatus |-> Text("pending"),
   amountPaid |-> Undefined, paymentId |-> Undefined, selectedGrid |-> Undefined,
   cameraFilter |-> Undefined, cameraSettings |-> Undefined,
   capturedPhotos |-> Undefined, selectedFrame |-> Undefined,
   editedPhotos |-> Undefined, compositeImage |-> Undefined,
   originalCompositeImage |-> Undefined, stickers |-> Undefined]

\* updateSession: setSessionData(prev => ({ ...prev, ...data }))
updateSession(prev, data) ==
  [k \in DOMAIN prev |-> IF k \in DOMAIN data THEN data[k] ELSE prev[k]]

\* the grids GridSelection offers
grids ==
  { [kind |-> "object", id |-> "5x5-single", name |-> "SINGLE", cols |-> 1, rows |-> 1],
    [kind |-> "object", id |-> "2x4-vertical-2", name |-> "V-2 CUT", cols |-> 2, rows |-> 1],
    [kind |-> "object", id |-> "4x6-4cut", name |-> "4 CUT", cols |-> 2, rows |-> 2],
    [kind |-> "object", id |-> "5x7-6cut", name |-> "6 CUT", cols |-> 3, rows |-> 2] }
\* useState('4x6-single') of GridSelection
InitialSelected == "4x6-single"

\* grids.find(g => g.id === id): the grid, or undefined
Find(id) ==
  IF \E g \in grids : g.id = id THEN CHOOSE g \in grids : g.id = id ELSE Undefined

\* no call of getPageSizeFromGrid or createGridComposite has been made
NoCalls ==
  /\ psArg = <<>>
  /\ psResult = <<>>
  /\ psAgain = <<>>
  /\ pc = "idle"
  /\ req = NoRequest
  /\ cellInches = <<>>
  /\ decode = Empty
  /\ values = Empty
  /\ layout = <<>>
  /\ resolvedBy = <<>>
  /\ canvas = <<>>
  /\ draws = Empty
  /\ result = <<>>
  /\ error = NoError
  /\ earlier = <<>>

\* the useState(...) values of CashPassword and GridSelection
PaymentMounted ==
  /\ cashError = FALSE
  /\ selected = InitialSelected

\* the useState(...) values of CameraSettings; nothing has been captured
CameraMounted ==
  /\ capturedPhotos = <<>>
  /\ loading = {}
  /\ shots = 0
  /\ editTimers = 0

\* the useState(...) values of EditScreen; no handler is suspended
EditMounted ==
  /\ currentPhotoIndex = 0
  /\ allEditedPhotos = {}
  /\ editSaves = {}
  /\ finalPhotos = <<>>

\* the useState(...) values of ShareScreen; nothing has been sent
ShareMounted ==
  /\ savedFilenames = <<>>
  /\ saveFetches = 0
  /\ filesSaved = 0
  /\ printCalls = {}
  /\ printRequests = <<>>
  /\ pageSizeConfig = Null
  /\ printStatus = "idle"

\* the app has been started: the welcome screen is mounted and its effect has
\* not run yet
AppStart ==
  /\ route = "/"
  /\ session = InitialSession
  /\ effectDue = TRUE
  /\ idsIssued = 0
  /\ PaymentMounted /\ CameraMounted /\ EditMounted /\ ShareMounted

Init == NoCalls /\ AppStart

(***************************************************************************)
(* A call of getPageSizeFromGrid                                           *)
(***************************************************************************)
PageGrids ==
  {NullGrid} \cup {StringGrid(s) : s \in GridIds} \cup ObjectGrids(GridIds, PageMaxDim, PageMaxDim)

ResolvePage(grid) ==
  /\ psArg' = <<grid>>
  /\ psResult' = <<getPageSizeFromGrid(grid)>>
  /\ psAgain' = <<>>
  /\ UNCHANGED cgVars
  /\ UNCHANGED uiVars

\* a second call with the argument of the last one
ResolveAgain ==
  /\ psArg # <<>>
  /\ psAgain' = <<getPageSizeFromGrid(psArg[1])>>
  /\ UNCHANGED <<psArg, psResult>>
  /\ UNCHANGED cgVars
  /\ UNCHANGED uiVars

(***************************************************************************)
(* A call of createGridComposite                                           *)
(***************************************************************************)
\* lines 114-121: photos.map creates one Image per photo and sets its src,
\* which starts its decode
StartDecodes(photos) == [index \in DOMAIN photos.srcs |-> "pending"]

\* variant: values are kept in the order in which the promises resolve
StoreResolved_CompletionOrder(vals, index, img) ==
  LET free == {k \in DOMAIN vals : vals[k] = <<>>}
      slot == CHOOSE k \in free : \A j \in free : k <= j
  IN  [vals EXCEPT ![slot] = <<img>>]

\* variant: resolved as soon as one promise has resolved
PromiseAllResolved_Any(vals) == \E i \in DOMAIN vals : vals[i] # <<>>

\* Promise.all keeps the value of the promise at index in values[index]
StoreResolved(vals, index, img) == [vals EXCEPT ![index] = <<img>>]

\* Promise.all resolves once every promise has resolved ...
PromiseAllResolved(vals) == \A i \in DOMAIN vals : vals[i] # <<>>

\* ... with the array of their values, in the order of the promises
ResolvedImages(vals) == [i \in {k \in DOMAIN vals : vals[k] # <<>>} |-> vals[i][1]]

\* img.onerror = reject: the promise is rejected with the error Event of the
\* Image element, whose target is that element
ErrorEvent(src) == [name |-> "Event", type |-> "error", target |-> [src |-> src]]

\* canvas.toDataURL('image/jpeg', 0.95): the encoding of the canvas (whose
\* content is the drawImage calls made on it, kept in draws)
ToDataURL(cv) == [type |-> "image/jpeg", width |-> cv.width, height |-> cv.height]

\* variant: the derived maxCellWidth outlives the call (a binding outside the
\* function), and a call without maxCellWidth reuses the value left there
Invoke_KeepsMaxCellWidth(photos, grid, opt) ==
  /\ req' = [photos |-> photos, grid |-> grid, dpi |-> opt.dpi,
             marginPercent |-> opt.marginPercent, maxCellWidth |-> opt.maxCellWidth]
  /\ layout' = <<>>
  /\ resolvedBy' = <<>>
  /\ canvas' = <<>>
  /\ draws' = Empty
  /\ result' = <<>>
  /\ IF Validate(photos, grid) # NoError
       THEN /\ pc' = "rejected"
            /\ error' = Validate(photos, grid)
            /\ cellInches' = cellInches
            /\ decode' = Empty
            /\ values' = Empty
       ELSE /\ pc' = "awaiting"
            /\ error' = NoError
            /\ cellInches' = IF opt.maxCellWidth.kind = "null" /\ cellInches # <<>>
                               THEN cellInches
                               ELSE <<EffectiveMaxCellWidth(grid, opt.maxCellWidth)>>
            /\ decode' = StartDecodes(photos)
            /\ values' = [index \in DOMAIN photos.srcs |-> <<>>]
  /\ UNCHANGED psVars

\* lines 87-121: the body of a call up to the await.  Every local is fresh:
\* nothing of an earlier call is read.  A failed check rejects the returned
\* promise at once; otherwise every decode is started.
Invoke(photos, grid, opt) ==
  /\ req' = [photos |-> photos, grid |-> grid, dpi |-> opt.dpi,
             marginPercent |-> opt.marginPercent, maxCellWidth |-> opt.maxCellWidth]
  /\ layout' = <<>>
  /\ resolvedBy' = <<>>
  /\ canvas' = <<>>
  /\ draws' = Empty
  /\ result' = <<>>
  /\ IF Validate(photos, grid) # NoError
       THEN /\ pc' = "rejected"
            /\ error' = Validate(photos, grid)
            /\ cellInches' = <<>>
            /\ decode' = Empty
            /\ values' = Empty
       ELSE /\ pc' = "awaiting"
            /\ error' = NoError
            /\ cellInches' = <<EffectiveMaxCellWidth(grid, opt.maxCellWidth)>>
            /\ decode' = StartDecodes(photos)
            /\ values' = [index \in DOMAIN photos.srcs |-> <<>>]
  /\ UNCHANGED psVars

\* the first call of createGridComposite
Call(photos, grid, opt) ==
  /\ pc = "idle"
  /\ Invoke(photos, grid, opt)
  /\ UNCHANGED earlier
  /\ UNCHANGED uiVars

\* a later call (EditScreen.handleNext runs each time the user continues),
\* made once the call before it has settled
CallAgain(photos, grid, opt) ==
  /\ pc \in {"resolved", "rejected"}
  /\ earlier' = IF earlier = <<>> /\ pc = "resolved"
                  THEN <<[req |-> req, layout |-> layout, canvas |-> canvas,
                          draws |-> draws, result |-> result,
                          resolvedBy |-> resolvedBy]>>
                  ELSE earlier
  /\ Invoke(photos, grid, opt)
  /\ UNCHANGED uiVars

\* lines 124-229: the code after the await, run when Promise.all resolves
\* with images
Resume(images) ==
  /\ layout' = <<Layout(images, req.grid, req.dpi, req.marginPercent, cellInches[1])>>
  /\ canvas' = <<[width |-> layout'[1].canvasWidth, height |-> layout'[1].canvasHeight,
                  fillStyle |-> "#FFFFFF"]>>
  /\ draws' = DrawAll(images, req.grid, layout'[1])
  /\ result' = <<ToDataURL(canvas'[1])>>
  /\ pc' = "resolved"
  /\ error' = NoError

\* img.onload of the Image at index: resolve(img).  The last resolution
\* resolves Promise.all and the call runs to its end; the photos' natural
\* sizes are chosen where the code first reads them.
ImageLoad(index) ==
  /\ index \in DOMAIN decode
  /\ decode[index] = "pending"
  /\ decode' = [decode EXCEPT ![index] = "loaded"]
  /\ IF pc = "awaiting"
       THEN /\ values' = StoreResolved(values, index, [src |-> req.photos.srcs[index]])
            /\ IF PromiseAllResolved(values')
                 THEN /\ resolvedBy' = <<index = 0>>
                      /\ \E sizes \in ImageSizes(req.photos) :
                           Resume(Sized(ResolvedImages(values'), sizes))
                 ELSE UNCHANGED <<pc, layout, resolvedBy, canvas, draws, result, error>>
       ELSE UNCHANGED <<pc, values, layout, resolvedBy, canvas, draws, result, error>>
  /\ UNCHANGED <<req, cellInches, earlier>>
  /\ UNCHANGED psVars
  /\ UNCHANGED uiVars

\* variant: the error event does not reject the promise
ImageError_Swallowed(index) ==
  /\ index \in DOMAIN decode
  /\ decode[index] = "pending"
  /\ decode' = [decode EXCEPT ![index] = "error"]
  /\ UNCHANGED <<pc, error, values>>
  /\ UNCHANGED <<req, cellInches, layout, resolvedBy, canvas, draws, result, earlier>>
  /\ UNCHANGED psVars
  /\ UNCHANGED uiVars

\* img.onerror of the Image at index: reject(event).  The first rejection
\* rejects Promise.all; the catch block (lines 230-233) rethrows it.  The
\* values array of a rejected Promise.all is unreachable and is dropped.
ImageError(index) ==
  /\ index \in DOMAIN decode
  /\ decode[index] = "pending"
  /\ decode' = [decode EXCEPT ![index] = "error"]
  /\ IF pc = "awaiting"
       THEN /\ pc' = "rejected"
            /\ error' = ErrorEvent(req.photos.srcs[index])
            /\ values' = [i \in DOMAIN values |-> <<>>]
       ELSE UNCHANGED <<pc, error, values>>
  /\ UNCHANGED <<req, cellInches, layout, resolvedBy, canvas, draws, result, earlier>>
  /\ UNCHANGED psVars
  /\ UNCHANGED uiVars

Next ==
  \/ \E photos \in PhotoLists, grid \in CompositeGrids, opt \in RenderOptions :
       Call(photos, grid, opt)
  \/ \E index \in 0..(MaxPhotos - 1) : ImageLoad(index)
  \/ \E index \in 0..(MaxPhotos - 1) : ImageError(index)

Spec == Init /\ [][Next]_vars

NextPage ==
  \/ \E grid \in PageGrids : ResolvePage(grid)
  \/ ResolveAgain

SpecPage == Init /\ [][NextPage]_vars

\* repeated calls: the one- and two-photo layouts of the grid-selection
\* screen, composed again and again
RerunPhotoLists == {PhotoArray(1), PhotoArray(2)}
RerunGrids ==
  { [kind |-> "object", id |-> "5x5-single", cols |-> 1, rows |-> 1],
    [kind |-> "object", id |-> "2x4-vertical-2", cols |-> 2, rows |-> 1] }

NextRerun ==
  \/ \E photos \in RerunPhotoLists, grid \in RerunGrids, opt \in RenderOptions :
       Call(photos, grid, opt)
  \/ \E photos \in RerunPhotoLists, grid \in RerunGrids, opt \in RenderOptions :
       CallAgain(photos, grid, opt)
  \/ \E index \in 0..(MaxPhotos - 1) : ImageLoad(index)
  \/ \E index \in 0..(MaxPhotos - 1) : ImageError(index)

SpecRerun == Init /\ [][NextRerun]_vars

(***************************************************************************)
(* Properties of getPageSizeFromGrid (checked under SpecPage)              *)
(***************************************************************************)
\* the last call was made with an object grid
PageCalledWithObject == psArg # <<>> /\ psArg[1].kind = "object"

\* the page size the catalog states for each of its ids
CatalogSizeOf(id) ==
  CASE id = "4x6-single"     -> PageSize(4, 6, "4x6")
    [] id = "2x4-vertical-2" -> PageSize(2, 4, "2x4")
    [] id = "4x6-4cut"       -> PageSize(4, 6, "4x6")
    [] id = "5x7-6cut"       -> PageSize(5, 7, "5x7")
    [] id = "5x5-single"     -> PageSize(5, 5, "5x5")

\* C1: a grid whose id is one of the five catalog ids resolves to the catalog
\* size of that id, whatever its cols and rows are (present, missing or 0):
\* the exact id match precedes the rules that look at the shape.
C1_ExactIdMatch ==
  (PageCalledWithObject /\ Has(psArg[1], "id") /\ psArg[1].id \in CatalogIds)
    => psResult = <<CatalogSizeOf(psArg[1].id)>>

\* C1 witness: '2x4-vertical-2' given with the shape 3 x 2, whose nearest
\* standard size would be 5x7, resolved to 2x4
C1_Witness ==
  /\ PageCalledWithObject
  /\ Has(psArg[1], "id") /\ psArg[1].id = "2x4-vertical-2"
  /\ GridCols(psArg[1]) = 3 /\ GridRows(psArg[1]) = 2
  /\ NearestStandardSize(psArg[1]).pageSize = "5x7"
  /\ psResult = <<PageSize(2, 4, "2x4")>>

\* the last call was made with an object grid of shape cols x rows whose id
\* is missing or not in the catalog
NoIdMatchShape(cols, rows) ==
  /\ PageCalledWithObject
  /\ ~(Has(psArg[1], "id") /\ psArg[1].id \in CatalogIds)
  /\ Has(psArg[1], "cols") /\ psArg[1].cols = cols
  /\ Has(psArg[1], "rows") /\ psArg[1].rows = rows

\* C2 (as claimed): without an id match the shapes (1,1), (2,1), (2,2) and
\* (3,2) resolve to 4x6, 2x4, 4x6 and 5x7.
C2_ShapeDefaults ==
  /\ NoIdMatchShape(1, 1) => psResult = <<PageSize(4, 6, "4x6")>>
  /\ NoIdMatchShape(2, 1) => psResult = <<PageSize(2, 4, "2x4")>>
  /\ NoIdMatchShape(2, 2) => psResult = <<PageSize(4, 6, "4x6")>>
  /\ NoIdMatchShape(3, 2) => psResult = <<PageSize(5, 7, "5x7")>>

\* the catalog entries and the standard sizes, each with its label
KnownPageSizes ==
  { PageSize(5, 5, "5x5"), PageSize(2, 4, "2x4"), PageSize(4, 6, "4x6"),
    PageSize(5, 7, "5x7"), PageSize(8, 10, "8x10") }

Called == req # NoRequest
Resolved == pc = "resolved"
SomeDecode(status) == \E i \in DOMAIN decode : decode[i] = status
\* nothing has been laid out, allocated, drawn or encoded
NothingRendered == layout = <<>> /\ canvas = <<>> /\ draws = Empty /\ result = <<>>

\* C4: the photo at index i is drawn in the cell of row i mod rows and column
\* i div rows, whose origin is (margin + col*(cellW + margin),
\* margin + row*(cellH + margin)); in a 2x2 grid the photos A, B, C, D of
\* indices 0..3 are at (row 0, col 0), (row 1, col 0), (row 0, col 1) and
\* (row 1, col 1); no photo is at its row-major cell where that cell differs.
C4_ColumnMajor ==
  Resolved =>
    LET rows == req.grid.rows
        cols == req.grid.cols
        m  == layout[1].marginSize
        cw == layout[1].cellWidthPx
        ch == layout[1].cellHeightPx
        At(i, col, row) ==
          /\ draws[i].img.src = req.photos.srcs[i]
          /\ draws[i].cellX = m + col * (cw + m)
          /\ draws[i].cellY = m + row * (ch + m)
    IN  /\ DOMAIN draws = 0..(cols * rows - 1)
        /\ \A i \in DOMAIN draws :
             /\ At(i, i \div rows, i % rows)
             /\ <<i % cols, i \div cols>> # <<i \div rows, i % rows>>
                  => ~At(i, i % cols, i \div cols)
        /\ (cols = 2 /\ rows = 2)
             => At(0, 0, 0) /\ At(1, 0, 1) /\ At(2, 1, 0) /\ At(3, 1, 1)

\* C4 witness: a composed 2x2 grid in which photo 1 lies below photo 0 and
\* photo 2 to the right of photo 0
C4_Witness ==
  /\ Resolved
  /\ req.grid.cols = 2 /\ req.grid.rows = 2
  /\ draws[1].img.src = req.photos.srcs[1]
  /\ draws[1].cellX = draws[0].cellX /\ draws[1].cellY > draws[0].cellY
  /\ draws[2].cellX > draws[0].cellX /\ draws[2].cellY = draws[0].cellY

\* the decoded photos of the request in the order of the photos argument
InputOrderImages ==
  [i \in DOMAIN req.photos.srcs |->
     draws[CHOOSE d \in DOMAIN draws : draws[d].img.src = req.photos.srcs[i]].img]

\* C5: whatever the order in which the decodes complete, the image drawn in
\* the cell of index i is input photo i, and the drawImage calls are those
\* the input order of the photos determines.
C5_OrderIndependent ==
  Resolved =>
    /\ DOMAIN draws = DOMAIN req.photos.srcs
    /\ \A i \in DOMAIN draws : draws[i].img.src = req.photos.srcs[i]
    /\ draws = DrawAll(InputOrderImages, req.grid, layout[1])

\* C5 witness: a composite of several photos resolved by the load of the
\* first photo, i.e. after every later photo had completed
C5_Witness ==
  /\ Resolved
  /\ resolvedBy = <<TRUE>>
  /\ PhotosLength(req.photos) >= 3
  /\ \A i \in DOMAIN draws : draws[i].img.src = req.photos.srcs[i]

\* C6: the decodes of a request are started together, and nothing is laid
\* out, allocated, drawn or encoded unless every decode has completed
\* successfully.
C6_JoinBarrier ==
  /\ pc = "awaiting" =>
       (decode # Empty /\ DOMAIN decode = DOMAIN req.photos.srcs)
  /\ decode # Empty => DOMAIN decode = DOMAIN req.photos.srcs
  /\ ~NothingRendered =>
       (decode # Empty /\ \A i \in DOMAIN decode : decode[i] = "loaded")

\* C6 witness: some decodes have completed, another is pending, and nothing
\* has been rendered
C6_Witness ==
  /\ pc = "awaiting"
  /\ SomeDecode("loaded") /\ SomeDecode("pending")
  /\ NothingRendered

\* the request gives a photo array and a grid object with cols and rows
\* whose product is not the number of photos
CountMismatch ==
  /\ Called
  /\ req.photos.kind = "array"
  /\ req.grid.kind = "object" /\ Has(req.grid, "cols") /\ Has(req.grid, "rows")
  /\ PhotosLength(req.photos) # req.grid.cols * req.grid.rows

\* C7: a request with photos.length # cols * rows is rejected with an Error
\* before any decode is started, any canvas allocated or anything encoded.
C7_CountEnforcedFirst ==
  CountMismatch =>
    /\ pc = "rejected"
    /\ error.name = "Error"
    /\ decode = Empty /\ values = Empty
    /\ NothingRendered

\* C7 witness: 5 photos for the 3x2 grid '5x7-6cut'
C7_Witness ==
  /\ CountMismatch
  /\ PhotosLength(req.photos) = 5
  /\ req.grid = [kind |-> "object", id |-> "5x7-6cut", cols |-> 3, rows |-> 2]
  /\ pc = "rejected"
  /\ error = CountError(6, 5)

\* the request's grid is an object with cols = 0 or rows = 0
ZeroGrid ==
  /\ req.grid.kind = "object"
  /\ \/ Has(req.grid, "cols") /\ req.grid.cols = 0
     \/ Has(req.grid, "rows") /\ req.grid.rows = 0
\* the request's grid is an object with cols >= 1 and rows >= 1
ValidGrid == req.grid.kind = "object" /\ GridCols(req.grid) >= 1 /\ GridRows(req.grid) >= 1

\* C8 (as claimed): a grid with cols = 0 or rows = 0 is rejected with the
\* invalid-grid error whatever the photo list is, the empty list included,
\* and a valid grid with a wrong photo count with an invalid-request error
\* (either message about the photos).
C8_ZeroGridAlwaysInvalidGrid ==
  (Called /\ req.photos.kind = "array") =>
    /\ ZeroGrid => (pc = "rejected" /\ error = InvalidGridError)
    /\ (ValidGrid /\ PhotosLength(req.photos) # req.grid.cols * req.grid.rows)
         => /\ pc = "rejected"
            /\ error.name = "Error"
            /\ error.message \in {"Expected photos", "No photos provided"}

\* C8 (amended): a missing or empty photo list is rejected with 'No photos
\* provided' whatever the grid is; a grid with cols = 0 or rows = 0 is
\* rejected with 'Invalid grid configuration' when the photo list is not
\* empty; a valid grid with a non-empty photo list of the wrong length is
\* rejected with 'Expected <cols*rows> photos, got <length>'.
C8_ErrorByCheckOrder ==
  Called =>
    IF req.photos.kind = "null" \/ PhotosLength(req.photos) = 0
      THEN pc = "rejected" /\ error = NoPhotosError
      ELSE /\ ZeroGrid => (pc = "rejected" /\ error = InvalidGridError)
           /\ (ValidGrid /\ PhotosLength(req.photos) # req.grid.cols * req.grid.rows)
                => /\ pc = "rejected"
                   /\ error = CountError(req.grid.cols * req.grid.rows,
                                         PhotosLength(req.photos))

\* C8 witness: an empty photo list with a grid of 0 columns, rejected with
\* 'No photos provided'
C8_Witness ==
  /\ Called
  /\ req.photos = PhotoArray(0)
  /\ ZeroGrid /\ Has(req.grid, "cols") /\ req.grid.cols = 0
  /\ pc = "rejected"
  /\ error = NoPhotosError

\* C9: once the decode of a photo has failed the call has failed: it is
\* rejected, returns no image, and no canvas is created and nothing drawn,
\* whatever the other decodes do.
C9_DecodeFailureIsFatal ==
  SomeDecode("error") => (pc = "rejected" /\ error # NoError /\ NothingRendered)

\* C9 witness: one decode failed after another had succeeded and while a
\* third is pending
C9_Witness ==
  /\ SomeDecode("error") /\ SomeDecode("loaded") /\ SomeDecode("pending")
  /\ pc = "rejected"
  /\ NothingRendered

\* C10 (as claimed): the error of a call that failed on a decode carries the
\* index of a photo whose decode failed.
C10_ErrorCarriesIndex ==
  (pc = "rejected" /\ SomeDecode("error")) =>
    /\ Has(error, "index")
    /\ error.index \in DOMAIN decode
    /\ decode[error.index] = "error"

(***************************************************************************)
(* Properties of the layout and of the drawing (checked under Spec)        *)
(***************************************************************************)
\* the decoded photos of a composed request
DrawnImages == {draws[i].img : i \in DOMAIN draws}
Wide(img) == img.width > img.height
\* the largest of a non-empty finite set of rationals
RMaxOf(S) == CHOOSE r \in S : \A s \in S : ~RLt(r, s)
\* the candidate cell of a photo as the claim states it, in inches
CandidateWidth(img, maxCellWidth) ==
  IF Wide(img) THEN maxCellWidth ELSE RMul(maxCellWidth, Rat(img.width, img.height))
CandidateHeight(img, maxCellWidth) ==
  IF Wide(img) THEN RDiv(maxCellWidth, Rat(img.width, img.height)) ELSE maxCellWidth

\* C11 (as claimed): the uniform cell is the largest candidate width by the
\* largest candidate height over the photos, a wide photo having the
\* candidate (maxCellWidth, maxCellWidth/aspect) and any other photo
\* (maxCellWidth*aspect, maxCellWidth); so the cell width is maxCellWidth only
\* if some photo is wide and the cell height is maxCellWidth only if some
\* photo is not wide.
C11_MaxOfCandidates ==
  Resolved =>
    LET mcw == cellInches[1]
        cell == layout[1]
    IN  /\ cell.maxCellWidthInches = RMaxOf({CandidateWidth(im, mcw) : im \in DrawnImages})
        /\ cell.maxCellHeightInches = RMaxOf({CandidateHeight(im, mcw) : im \in DrawnImages})
        /\ cell.maxCellWidthInches = mcw => \E im \in DrawnImages : Wide(im)
        /\ cell.maxCellHeightInches = mcw => \E im \in DrawnImages : ~Wide(im)

\* C12: every drawImage call draws the whole source image (source rectangle
\* (0, 0, img.width, img.height)) into a rectangle of the photo's own aspect
\* ratio: drawWidth * img.height = drawHeight * img.width.
C12_AspectKept ==
  Resolved =>
    \A i \in DOMAIN draws :
      LET d == draws[i]
      IN  /\ RMul(d.drawWidth, RInt(d.img.height)) = RMul(d.drawHeight, RInt(d.img.width))
          /\ d.sx = 0 /\ d.sy = 0
          /\ d.sWidth = d.img.width /\ d.sHeight = d.img.height

\* C12 witness: a wide and a tall photo drawn in cells of another aspect
\* ratio, each in a rectangle smaller than its cell
C12_Witness ==
  /\ Resolved
  /\ \E i, j \in DOMAIN draws :
       /\ Wide(draws[i].img)
       /\ RLt(draws[i].drawHeight, RInt(layout[1].cellHeightPx))
       /\ draws[j].img.width < draws[j].img.height
       /\ RLt(draws[j].drawWidth, RInt(layout[1].cellWidthPx))

\* the cells of the composed grid, as (col, row)
GridCells == (0..(req.grid.cols - 1)) \X (0..(req.grid.rows - 1))
\* the drawImage calls whose cell is c
DrawsAt(c) ==
  {i \in DOMAIN draws :
     /\ draws[i].cellX = layout[1].marginSize
                           + c[1] * (layout[1].cellWidthPx + layout[1].marginSize)
     /\ draws[i].cellY = layout[1].marginSize
                           + c[2] * (layout[1].cellHeightPx + layout[1].marginSize)}
\* the rectangle drawn by d is exactly the cell of d
CellCovered(d) ==
  /\ d.drawX = RInt(d.cellX) /\ d.drawY = RInt(d.cellY)
  /\ d.drawWidth = RInt(layout[1].cellWidthPx)
  /\ d.drawHeight = RInt(layout[1].cellHeightPx)
\* the rectangle drawn by d lies within the cell of d
InsideCell(d) ==
  /\ ~RLt(d.drawX, RInt(d.cellX))
  /\ ~RLt(d.drawY, RInt(d.cellY))
  /\ ~RGt(RAdd(d.drawX, d.drawWidth), RInt(d.cellX + layout[1].cellWidthPx))
  /\ ~RGt(RAdd(d.drawY, d.drawHeight), RInt(d.cellY + layout[1].cellHeightPx))

\* C13 (as claimed): after rendering every cell rectangle is completely
\* covered by the drawn region of exactly one photo.
C13_CellsFullyCovered ==
  Resolved =>
    \A c \in GridCells :
      /\ Cardinality(DrawsAt(c)) = 1
      /\ \A i \in DrawsAt(c) : CellCovered(draws[i])

\* C13 (amended): after rendering every cell rectangle holds the drawn region
\* of exactly one photo, which lies inside the cell and spans its full width
\* or its full height; the cell is completely covered exactly when the
\* photo's aspect ratio equals the cell's, otherwise the rest of the cell
\* stays white.
C13_OnePhotoPerCellLetterboxed ==
  Resolved =>
    \A c \in GridCells :
      /\ Cardinality(DrawsAt(c)) = 1
      /\ \A i \in DrawsAt(c) :
           LET d == draws[i]
           IN  /\ InsideCell(d)
               /\ \/ d.drawWidth = RInt(layout[1].cellWidthPx)
                  \/ d.drawHeight = RInt(layout[1].cellHeightPx)
               /\ CellCovered(d) <=>
                    (d.img.width * layout[1].cellHeightPx
                       = d.img.height * layout[1].cellWidthPx)

\* C13 witness: a composite in which the cell of a square photo is covered
\* and the cell of a wide photo is not
C13_Witness ==
  /\ Resolved
  /\ \E i, j \in DOMAIN draws :
       /\ draws[i].img.width = draws[i].img.height /\ CellCovered(draws[i])
       /\ Wide(draws[j].img) /\ ~CellCovered(draws[j]) /\ InsideCell(draws[j])

\* C14: a photo whose aspect ratio exceeds that of the cell is drawn over the
\* full cell width, with height cellW / imgAspect, centred vertically
\* (drawY = cellY + (cellH - drawHeight) / 2); any other photo is drawn over
\* the full cell height, with width cellH * imgAspect, centred horizontally;
\* in both cases the drawn rectangle lies inside the photo's own cell.
C14_FitAndCentre ==
  Resolved =>
    \A i \in DOMAIN draws :
      LET d  == draws[i]
          cw == layout[1].cellWidthPx
          ch == layout[1].cellHeightPx
          w  == d.img.width
          h  == d.img.height
      IN  /\ IF w * ch > h * cw
               THEN /\ d.drawWidth = RInt(cw)
                    /\ d.drawHeight = Rat(cw * h, w)
                    /\ d.drawX = RInt(d.cellX)
                    /\ d.drawY = Rat(2 * d.cellY * w + ch * w - cw * h, 2 * w)
               ELSE /\ d.drawHeight = RInt(ch)
                    /\ d.drawWidth = Rat(ch * w, h)
                    /\ d.drawY = RInt(d.cellY)
                    /\ d.drawX = Rat(2 * d.cellX * h + cw * h - ch * w, 2 * h)
          /\ InsideCell(d)

\* C14 witness: a wide photo centred vertically and a tall photo centred
\* horizontally, each strictly inside its cell on the centred axis
C14_Witness ==
  /\ Resolved
  /\ \E i, j \in DOMAIN draws :
       /\ draws[i].drawX = RInt(draws[i].cellX)
       /\ RGt(draws[i].drawY, RInt(draws[i].cellY))
       /\ draws[j].drawY = RInt(draws[j].cellY)
       /\ RGt(draws[j].drawX, RInt(draws[j].cellX))

\* C15: once the checks have passed, maxCellWidth is the explicit argument
\* if one was given, and otherwise
\* min((pageW - 0.1*(cols-1))/cols, (pageH - 0.1*(rows-1))/rows) with pageW
\* and pageH the inches getPageSizeFromGrid returns for the same grid.
C15_AutoMaxCellWidth ==
  cellInches # <<>> =>
    LET page == getPageSizeFromGrid(req.grid)
        cols == req.grid.cols
        rows == req.grid.rows
        byWidth  == Rat(10 * page.widthInches - (cols - 1), 10 * cols)
        byHeight == Rat(10 * page.heightInches - (rows - 1), 10 * rows)
    IN  IF req.maxCellWidth.kind = "null"
          THEN /\ cellInches[1] \in {byWidth, byHeight}
               /\ ~RGt(cellInches[1], byWidth)
               /\ ~RGt(cellInches[1], byHeight)
          ELSE cellInches[1] = req.maxCellWidth.value

\* C15 witness: a 1x2 grid without id (page 2x4) called without maxCellWidth,
\* where the page height is what bounds the cell: (4 - 0.1)/2 = 1.95 < 2
C15_Witness ==
  /\ pc = "awaiting"
  /\ req.maxCellWidth.kind = "null"
  /\ req.grid = [kind |-> "object", cols |-> 1, rows |-> 2]
  /\ getPageSizeFromGrid(req.grid) = PageSize(2, 4, "2x4")
  /\ cellInches = <<Rat(39, 20)>>

\* k is Math.round of the rational n/d (d > 0): k - 1/2 <= n/d < k + 1/2
IsRoundOf(k, n, d) == 2 * k * d - d <= 2 * n /\ 2 * n < 2 * k * d + d

\* C16: cellW_px = round(cellW_in * dpi), cellH_px = round(cellH_in * dpi),
\* margin = round(min(cellW_px, cellH_px) * marginPercent / 100),
\* canvasWidth = margin + (cellW_px + margin) * cols and
\* canvasHeight = margin + (cellH_px + margin) * rows, which is the size of
\* the canvas created.
C16_MarginAndCanvas ==
  Resolved =>
    LET l  == layout[1]
        cw == l.cellWidthPx
        ch == l.cellHeightPx
        m  == l.marginSize
        smaller == IF cw <= ch THEN cw ELSE ch
    IN  /\ IsRoundOf(cw, l.maxCellWidthInches[1] * req.dpi, l.maxCellWidthInches[2])
        /\ IsRoundOf(ch, l.maxCellHeightInches[1] * req.dpi, l.maxCellHeightInches[2])
        /\ IsRoundOf(m, smaller * req.marginPercent, 100)
        /\ l.canvasWidth = m + (cw + m) * req.grid.cols
        /\ l.canvasHeight = m + (ch + m) * req.grid.rows
        /\ canvas = <<[width |-> m * (req.grid.cols + 1) + cw * req.grid.cols,
                       height |-> m * (req.grid.rows + 1) + ch * req.grid.rows,
                       fillStyle |-> "#FFFFFF"]>>

\* C16 witness: the 3x2 grid '5x7-6cut' at 300 dpi with 3 percent margin:
\* cell 1.6 in = 480 px, margin round(14.4) = 14, canvas 1496 x 1002
C16_Witness ==
  /\ Resolved
  /\ req.grid = [kind |-> "object", id |-> "5x7-6cut", cols |-> 3, rows |-> 2]
  /\ req.dpi = 300 /\ req.marginPercent = 3
  /\ layout[1].cellWidthPx = 480 /\ layout[1].marginSize = 14
  /\ canvas[1].width = 1496 /\ canvas[1].height = 1002

(***************************************************************************)
(* The nearest-size fallback (checked under SpecPage)                      *)
(***************************************************************************)
\* the last call was made with a grid that is not null and has no catalog id
PageCalledWithoutIdMatch ==
  psArg # <<>> /\ psArg[1].kind # "null" /\ ~IdMatches(GridIdOf(psArg[1]))

\* the L1 distance, in tenths of an inch, between the page estimate of a
\* cols x rows grid (2*cols + 0.1*(cols-1) by 3*rows + 0.1*(rows-1)) and the
\* standard size of index i
EstimateDistance(i, cols, rows) ==
  Abs(21 * cols - 1 - 10 * standardSizes[i].w)
    + Abs(31 * rows - 1 - 10 * standardSizes[i].h)

\* C17: without an id match the result is the standard size at the smallest
\* L1 distance from the page estimate, scanning 2x4, 4x6, 5x7, 8x10 in that
\* order; of several sizes at the smallest distance the earliest is chosen.
C17_NearestEarliestWins ==
  PageCalledWithoutIdMatch =>
    LET cols == IF GridCols(psArg[1]) # 0 THEN GridCols(psArg[1]) ELSE 1
        rows == IF GridRows(psArg[1]) # 0 THEN GridRows(psArg[1]) ELSE 1
    IN  \E k \in DOMAIN standardSizes :
          /\ psResult = <<PageSize(standardSizes[k].w, standardSizes[k].h,
                                   standardSizes[k].name)>>
          /\ \A j \in DOMAIN standardSizes :
               /\ EstimateDistance(k, cols, rows) <= EstimateDistance(j, cols, rows)
               /\ j < k => EstimateDistance(k, cols, rows) < EstimateDistance(j, cols, rows)

\* C17 witness: a 2x1 grid without id, whose estimate 4.1 x 3.0 in is 3.1 in
\* away from both 2x4 and 4x6, resolved to the earlier of the two, 2x4
C17_Witness ==
  /\ NoIdMatchShape(2, 1)
  /\ EstimateDistance(0, 2, 1) = EstimateDistance(1, 2, 1)
  /\ EstimateDistance(0, 2, 1) < EstimateDistance(2, 2, 1)
  /\ psResult = <<PageSize(2, 4, "2x4")>>

(***************************************************************************)
(* The canvas of a composite (checked under Spec)                          *)
(***************************************************************************)
\* the decoded photos of a composed request, by index
DrawnImageArray == [i \in DOMAIN draws |-> draws[i].img]
\* the layout of the composed request had marginPercent been mp
LayoutWithMargin(mp) ==
  Layout(DrawnImageArray, req.grid, req.dpi, mp, cellInches[1])

\* C18 (as claimed): the canvas size depends only on the page size and dpi:
\* with the grid, the photos and dpi fixed, any other marginPercent gives the
\* same canvas width and height.
C18_CanvasIndependentOfMargin ==
  Resolved =>
    \A opt \in RenderOptions :
      /\ LayoutWithMargin(opt.marginPercent).canvasWidth = canvas[1].width
      /\ LayoutWithMargin(opt.marginPercent).canvasHeight = canvas[1].height

\* C19 (as claimed): grid {cols: 2, rows: 1, id: '2x4-vertical-2'}, dpi 300,
\* marginPercent 2 and two square photos give a canvas of 600 x 1200 px, a
\* margin of 12 px and cells of 282 x 1176 px.
C19_TwoCutScenario ==
  ( /\ Resolved
    /\ req.grid = [kind |-> "object", id |-> "2x4-vertical-2", cols |-> 2, rows |-> 1]
    /\ req.dpi = 300 /\ req.marginPercent = 2
    /\ req.maxCellWidth.kind = "null"
    /\ \A i \in DOMAIN draws : draws[i].img.width = draws[i].img.height )
  => /\ canvas[1].width = 600 /\ canvas[1].height = 1200
     /\ layout[1].marginSize = 12
     /\ layout[1].cellWidthPx = 282 /\ layout[1].cellHeightPx = 1176

(***************************************************************************)
(* Repeated composition (checked under SpecRerun)                          *)
(***************************************************************************)
\* the decoded size of each photo (by data URL) among the drawImage calls ds
PhotoSizes(ds) ==
  [src \in {ds[i].img.src : i \in DOMAIN ds} |->
     LET i == CHOOSE k \in DOMAIN ds : ds[k].img.src = src
     IN  <<ds[i].img.width, ds[i].img.height>>]

\* this call has resolved, and it was given the request and the photos (the
\* same data URLs decoding to the same sizes) of the earlier call kept in
\* earlier
SameAsEarlier ==
  /\ Resolved
  /\ earlier # <<>>
  /\ req = earlier[1].req
  /\ PhotoSizes(draws) = PhotoSizes(earlier[1].draws)

\* C20: a call given the photos, grid, dpi, marginPercent and maxCellWidth of
\* an earlier call produces the same canvas size, the same cells and the same
\* draw rectangle for every photo, whatever calls were made in between and
\* in whatever order the decodes of either call completed.
C20_Deterministic ==
  SameAsEarlier =>
    /\ canvas = earlier[1].canvas
    /\ layout = earlier[1].layout
    /\ draws = earlier[1].draws
    /\ result = earlier[1].result

\* C20 witness: the two-photo request composed a second time, its decodes
\* completing in the other order
C20_Witness ==
  /\ SameAsEarlier
  /\ PhotosLength(req.photos) = 2
  /\ resolvedBy # earlier[1].resolvedBy
  /\ draws = earlier[1].draws

(***************************************************************************)
(* The first screens of the wizard: welcome, payment, grid selection       *)
(***************************************************************************)
\* every render of App creates a new updateSession function (part_000 lines
\* 27-29 are not memoised), so after a call of updateSession a mounted
\* WelcomeScreen is rendered with a changed dependency and its effect is due;
\* on any other route no WelcomeScreen is mounted
EffectDueOn(path) == path = "/"

\* WelcomeScreen's effect: a new session id is stored
WelcomeScreen_useEffect ==
  /\ route = "/"
  /\ effectDue
  /\ idsIssued < MaxSessionIds
  /\ idsIssued' = idsIssued + 1
  /\ session' = updateSession(session, [sessionId |-> SessionId(idsIssued'),
                                        paymentStatus |-> Text("pending")])
  /\ effectDue' = EffectDueOn(route)
  /\ UNCHANGED <<route, cashError, selected>>
  /\ UNCHANGED <<camVars, editVars, shareVars>>
  /\ UNCHANGED <<psVars, cgVars>>

\* WelcomeScreen.handleStart; React runs a pending effect before it handles
\* the click, so the first session id has been stored
WelcomeScreen_handleStart ==
  /\ route = "/"
  /\ session.sessionId # Null
  /\ route' = "/payment"
  /\ effectDue' = EffectDueOn(route')
  /\ UNCHANGED <<session, idsIssued, cashError, selected>>
  /\ UNCHANGED <<camVars, editVars, shareVars>>
  /\ UNCHANGED <<psVars, cgVars>>

\* Page2: the Razorpay success handler.  App renders <Page2 /> without an
\* updateSession prop, so the handler stores nothing and opens the grid
\* selection, which is mounted with its first state
Page2_handler ==
  /\ route = "/payment"
  /\ route' = "/grid"
  /\ selected' = InitialSelected
  /\ UNCHANGED <<session, effectDue, idsIssued, cashError>>
  /\ UNCHANGED <<camVars, editVars, shareVars>>
  /\ UNCHANGED <<psVars, cgVars>>

\* Page2: the cash tile, navigate('/cash-password')
Page2_cash ==
  /\ route = "/payment"
  /\ route' = "/cash-password"
  /\ cashError' = FALSE
  /\ UNCHANGED <<session, effectDue, idsIssued, selected>>
  /\ UNCHANGED <<camVars, editVars, shareVars>>
  /\ UNCHANGED <<psVars, cgVars>>

\* the passwords typed on the keypad: the right one and a wrong one
Passwords == {"123456", "000000"}

\* CashPassword.handleSubmit
CashPassword_handleSubmit(password) ==
  /\ route = "/cash-password"
  /\ IF password = "123456"
       THEN /\ session' = updateSession(session, [paymentStatus |-> Text("completed"),
                                                  amountPaid |-> Number(200)])
            /\ route' = "/grid"
            /\ selected' = InitialSelected
            /\ UNCHANGED cashError
       ELSE /\ cashError' = TRUE
            /\ UNCHANGED <<session, route, selected>>
  /\ effectDue' = EffectDueOn(route')
  /\ UNCHANGED idsIssued
  /\ UNCHANGED <<camVars, editVars, shareVars>>
  /\ UNCHANGED <<psVars, cgVars>>

\* CashPassword and GridSelection: the back button, navigate('/payment')
BackToPayment ==
  /\ route \in {"/cash-password", "/grid"}
  /\ route' = "/payment"
  /\ UNCHANGED <<session, effectDue, idsIssued, cashError, selected>>
  /\ UNCHANGED <<camVars, editVars, shareVars>>
  /\ UNCHANGED <<psVars, cgVars>>

\* GridSelection: a click on the tile of grid, setSelected(grid.id)
setSelected(grid) ==
  /\ route = "/grid"
  /\ selected' = grid.id
  /\ UNCHANGED <<route, session, effectDue, idsIssued, cashError>>
  /\ UNCHANGED <<camVars, editVars, shareVars>>
  /\ UNCHANGED <<psVars, cgVars>>

\* GridSelection.handleContinue
GridSelection_handleContinue ==
  /\ route = "/grid"
  /\ session' = updateSession(session, [selectedGrid |-> Find(selected)])
  /\ route' = "/camera-filter"
  /\ effectDue' = EffectDueOn(route')
  /\ UNCHANGED <<idsIssued, cashError, selected>>
  /\ UNCHANGED <<camVars, editVars, shareVars>>
  /\ UNCHANGED <<psVars, cgVars>>

NextWizard ==
  \/ WelcomeScreen_useEffect
  \/ WelcomeScreen_handleStart
  \/ Page2_handler
  \/ Page2_cash
  \/ \E password \in Passwords : CashPassword_handleSubmit(password)
  \/ BackToPayment
  \/ \E grid \in grids : setSelected(grid)
  \/ GridSelection_handleContinue

SpecWizard == Init /\ [][NextWizard]_vars

(***************************************************************************)
(* CameraSettings: capturing the photos of the grid                        *)
(***************************************************************************)
\* an array value of the session
Array(items) == [kind |-> "array", items |-> items]
\* the cameraSettings object handleCapture and apply store (the slider
\* values are not modelled)
Settings == [kind |-> "object"]

\* what the wizard has stored when CameraSettings is mounted: the session id
\* of WelcomeScreen, the payment of CashPassword, the grid of GridSelection
SessionAtCamera(grid) ==
  updateSession(
    updateSession(
      updateSession(InitialSession,
                    [sessionId |-> SessionId(1), paymentStatus |-> Text("pending")]),
      [paymentStatus |-> Text("completed"), amountPaid |-> Number(200)]),
    [selectedGrid |-> grid])

\* getGridCellCount applied to sessionData.selectedGrid
getGridCellCount(grid) ==
  IF grid.kind \in {"undefined", "null"} THEN 1
  ELSE IF grid.kind = "string"
    THEN CASE grid.str = "4x6-single"     -> 1
           [] grid.str = "2x4-vertical-2" -> 2
           [] grid.str = "4x6-4cut"       -> 4
           [] grid.str = "5x7-6cut"       -> 6
           [] OTHER                       -> 1
  ELSE IF GridCols(grid) # 0 /\ GridRows(grid) # 0 THEN grid.cols * grid.rows
  ELSE IF ~Has(grid, "id") THEN 1
  ELSE CASE grid.id = "4x6-single"     -> 1
         [] grid.id = "2x4-vertical-2" -> 2
         [] grid.id = "4x6-4cut"       -> 4
         [] grid.id = "5x7-6cut"       -> 6
         [] OTHER                      -> 1

\* const totalCells = getGridCellCount()
totalCells == getGridCellCount(session.selectedGrid)

\* variant: the capture button is never disabled
isComplete_Never(photos, total) == FALSE

\* const isComplete = capturedPhotos.length === totalCells
isComplete(photos, total) == Len(photos) = total

\* what getScreenshot returns: null while the webcam is not ready, or an image
Screenshots == {"null", "image"}

\* CameraSettings.handleCapture up to the assignment of img.onload; the
\* closure of onload holds the capturedPhotos and totalCells of the render
\* the click was handled in
handleCapture(imageSrc) ==
  /\ route = "/camera-settings"
  /\ ~isComplete(capturedPhotos, totalCells)
  /\ shots < MaxShots
  /\ session' = updateSession(session, [cameraSettings |-> Settings])
  /\ IF imageSrc = "null"
       THEN UNCHANGED <<shots, loading>>
       ELSE /\ shots' = shots + 1
            /\ loading' = loading \cup {[photo |-> shots', closure |-> capturedPhotos,
                                         totalCells |-> totalCells]}
  /\ UNCHANGED <<route, effectDue, idsIssued, capturedPhotos, editTimers>>
  /\ UNCHANGED <<payVars, editVars, shareVars>>
  /\ UNCHANGED <<psVars, cgVars>>

\* img.onload of handleCapture for the pending image l; a state update of a
\* screen that is no longer mounted is dropped
handleCapture_onload(l) ==
  /\ l \in loading
  /\ loading' = loading \ {l}
  /\ LET newPhotos == Append(l.closure, l.photo)
     IN  /\ capturedPhotos' = IF route = "/camera-settings" THEN newPhotos
                              ELSE capturedPhotos
         /\ IF Len(newPhotos) = l.totalCells
              THEN /\ session' = updateSession(session, [capturedPhotos |-> Array(newPhotos)])
                   /\ editTimers' = editTimers + 1
              ELSE UNCHANGED <<session, editTimers>>
  /\ UNCHANGED <<route, effectDue, idsIssued, shots>>
  /\ UNCHANGED <<payVars, editVars, shareVars>>
  /\ UNCHANGED <<psVars, cgVars>>

\* the button 'Remove Last' / 'Back' of lines 309-319
RemoveLastOrBack ==
  /\ route = "/camera-settings"
  /\ IF Len(capturedPhotos) > 0
       THEN /\ capturedPhotos' = SubSeq(capturedPhotos, 1, Len(capturedPhotos) - 1)
            /\ UNCHANGED route
       ELSE /\ route' = "/camera-filter"
            /\ UNCHANGED capturedPhotos
  /\ UNCHANGED <<session, effectDue, idsIssued, loading, shots, editTimers>>
  /\ UNCHANGED <<payVars, editVars, shareVars>>
  /\ UNCHANGED <<psVars, cgVars>>

\* CameraSettings.apply, the button 'Skip Capture' shown while !isComplete
CameraSettings_apply ==
  /\ route = "/camera-settings"
  /\ ~isComplete(capturedPhotos, totalCells)
  /\ session' = updateSession(session, [cameraSettings |-> Settings])
  /\ route' = "/camera-filter"
  /\ UNCHANGED <<effectDue, idsIssued>>
  /\ UNCHANGED <<payVars, camVars, editVars, shareVars>>
  /\ UNCHANGED <<psVars, cgVars>>

\* a pending setTimeout(() => navigate('/edit'), 500) fires; EditScreen is
\* mounted with its first state unless it is already up
NavigateEdit ==
  /\ editTimers > 0
  /\ editTimers' = editTimers - 1
  /\ route' = "/edit"
  /\ IF route = "/edit"
       THEN UNCHANGED editVars
       ELSE /\ currentPhotoIndex' = 0
            /\ allEditedPhotos' = {}
            /\ editSaves' = {}
            /\ finalPhotos' = <<>>
  /\ UNCHANGED <<session, effectDue, idsIssued, capturedPhotos, loading, shots>>
  /\ UNCHANGED <<payVars, shareVars>>
  /\ UNCHANGED <<psVars, cgVars>>

\* CameraSettings has been mounted after the grid selection, where the user
\* clicked one of the layouts or none
InitCamera ==
  /\ NoCalls
  /\ route = "/camera-settings"
  /\ \E grid \in grids \cup {Undefined} : session = SessionAtCamera(grid)
  /\ effectDue = FALSE
  /\ idsIssued = 1
  /\ PaymentMounted /\ CameraMounted /\ EditMounted /\ ShareMounted

NextCamera ==
  \/ \E imageSrc \in Screenshots : handleCapture(imageSrc)
  \/ \E l \in loading : handleCapture_onload(l)
  \/ RemoveLastOrBack
  \/ CameraSettings_apply
  \/ NavigateEdit

SpecCamera == InitCamera /\ [][NextCamera]_vars

(***************************************************************************)
(* EditScreen: editing the photos and composing the grid                   *)
(***************************************************************************)
\* the layouts whose photos are edited in the model
EditGrids == {g \in grids : g.cols * g.rows <= MaxEditPhotos}

\* what the wizard has stored when EditScreen is mounted: what CameraSettings
\* was mounted with, its settings, and one captured photo per cell
SessionAtEdit(grid) ==
  updateSession(
    updateSession(SessionAtCamera(grid), [cameraSettings |-> Settings]),
    [capturedPhotos |-> Array([k \in 1..getGridCellCount(grid) |-> k])])

\* const photos = sessionData?.capturedPhotos || (... ? [...] : [])
photos ==
  IF session.capturedPhotos.kind = "array" THEN session.capturedPhotos.items ELSE <<>>

\* a photo of the edit screen: the captured photo it shows, as captured or as
\* re-drawn with filters and stickers by saveCurrentPhoto
Photo(k, edited) == [kind |-> "photo", photo |-> k, edited |-> edited]

\* lines 246-249: photos.map(...) over updatedEditedPhotos
FinalPhotosOf(updatedEditedPhotos) ==
  [i \in 1..Len(photos) |-> Photo(photos[i], (i - 1) \in updatedEditedPhotos)]

\* line 252: sessionData.selectedGrid || { cols: 1, rows: 1, id: '4x6-single' }
GridOrDefault(grid) ==
  IF grid.kind \in {"undefined", "null"}
    THEN [kind |-> "object", cols |-> 1, rows |-> 1, id |-> "4x6-single"]
    ELSE grid

\* the arguments 300, 3 of the call at line 259
EditOptions == [dpi |-> 300, marginPercent |-> 3, maxCellWidth |-> NullNumber]

\* the data URL createGridComposite resolved with, together with the photos
\* it has drawn, cell by cell in drawing order
CompositeOf(final) ==
  [kind |-> "composite", dataURL |-> result[1],
   cells |-> [i \in 1..Len(final) |-> final[draws[i - 1].img.src + 1]]]

\* variant: without a composite nothing is stored
StoredComposite_NoFallback(compositeImage, final) == compositeImage

\* line 272: compositeImage || finalPhotos[0]
StoredComposite(compositeImage, final) ==
  IF compositeImage = Null THEN final[1] ELSE compositeImage

\* lines 270-276: the end of handleNext
FinishEdit(compositeImage, final) ==
  /\ session' = updateSession(session,
                  [editedPhotos |-> Array(final),
                   compositeImage |-> StoredComposite(compositeImage, final)])
  /\ route' = "/frame-selection"

\* saveCurrentPhoto up to its await: the Image of the current photo is
\* created; the closure holds currentPhotoIndex and allEditedPhotos.  next
\* tells whether handleNext is the caller awaiting it
saveCurrentPhoto(next) ==
  editSaves' = editSaves \cup {[index |-> currentPhotoIndex,
                                closure |-> allEditedPhotos, next |-> next]}

\* EditScreen.handleNextPhoto
handleNextPhoto ==
  /\ route = "/edit"
  /\ saveCurrentPhoto(FALSE)
  /\ currentPhotoIndex' = IF currentPhotoIndex < Len(photos) - 1
                            THEN currentPhotoIndex + 1 ELSE currentPhotoIndex
  /\ UNCHANGED <<allEditedPhotos, finalPhotos>>
  /\ UNCHANGED <<appVars, payVars, camVars, shareVars>>
  /\ UNCHANGED <<psVars, cgVars>>

\* EditScreen.handlePreviousPhoto
handlePreviousPhoto ==
  /\ route = "/edit"
  /\ saveCurrentPhoto(FALSE)
  /\ currentPhotoIndex' = IF currentPhotoIndex > 0
                            THEN currentPhotoIndex - 1 ELSE currentPhotoIndex
  /\ UNCHANGED <<allEditedPhotos, finalPhotos>>
  /\ UNCHANGED <<appVars, payVars, camVars, shareVars>>
  /\ UNCHANGED <<psVars, cgVars>>

\* a handleNext call has not finished
NextInFlight == finalPhotos # <<>> \/ \E sv \in editSaves : sv.next

\* EditScreen.handleNext up to await saveCurrentPhoto(); the button is
\* pressed once, not again while the call is running
handleNext ==
  /\ route = "/edit"
  /\ ~NextInFlight
  /\ saveCurrentPhoto(TRUE)
  /\ UNCHANGED <<currentPhotoIndex, allEditedPhotos, finalPhotos>>
  /\ UNCHANGED <<appVars, payVars, camVars, shareVars>>
  /\ UNCHANGED <<psVars, cgVars>>

\* img.onload of the saveCurrentPhoto call sv (lines 215-236), and, when
\* handleNext awaits it, handleNext from line 241 to its await of
\* createGridComposite or, without a composite, to its end
saveCurrentPhoto_onload(sv) ==
  /\ sv \in editSaves
  /\ editSaves' = editSaves \ {sv}
  /\ allEditedPhotos' = IF route = "/edit" THEN sv.closure \cup {sv.index}
                        ELSE allEditedPhotos
  /\ LET final == FinalPhotosOf(sv.closure \cup {sv.index})
         grid == GridOrDefault(session.selectedGrid)
         cells == grid.cols * grid.rows
     IN  IF ~sv.next
           THEN /\ UNCHANGED <<route, session, finalPhotos>>
                /\ UNCHANGED <<psVars, cgVars>>
           ELSE IF Len(final) > 1 /\ cells > 1 /\ Len(final) = cells
             THEN /\ Invoke(PhotoArray(Len(final)), grid, EditOptions)
                  /\ finalPhotos' = <<final>>
                  /\ UNCHANGED <<route, session, earlier>>
             ELSE /\ FinishEdit(IF Len(final) = 1 THEN final[1] ELSE Null, final)
                  /\ UNCHANGED finalPhotos
                  /\ UNCHANGED <<psVars, cgVars>>
  /\ UNCHANGED <<effectDue, idsIssued, currentPhotoIndex>>
  /\ UNCHANGED <<payVars, camVars, shareVars>>

\* handleNext after await createGridComposite (lines 259-276): the call has
\* resolved with the composite, or has rejected and the catch block goes on
\* without one
handleNext_resume ==
  /\ finalPhotos # <<>>
  /\ pc \in {"resolved", "rejected"}
  /\ FinishEdit(IF pc = "resolved" THEN CompositeOf(finalPhotos[1]) ELSE Null,
                finalPhotos[1])
  /\ finalPhotos' = <<>>
  /\ UNCHANGED <<effectDue, idsIssued, currentPhotoIndex, allEditedPhotos, editSaves>>
  /\ UNCHANGED <<payVars, camVars, shareVars>>
  /\ UNCHANGED <<psVars, cgVars>>

\* EditScreen has been mounted with the photos of the camera screen
InitEdit ==
  /\ NoCalls
  /\ route = "/edit"
  /\ \E grid \in EditGrids \cup {Undefined} : session = SessionAtEdit(grid)
  /\ effectDue = FALSE
  /\ idsIssued = 1
  /\ PaymentMounted /\ CameraMounted /\ EditMounted /\ ShareMounted

NextEdit ==
  \/ handleNextPhoto
  \/ handlePreviousPhoto
  \/ handleNext
  \/ \E sv \in editSaves : saveCurrentPhoto_onload(sv)
  \/ \E index \in 0..(MaxEditPhotos - 1) : ImageLoad(index)
  \/ \E index \in 0..(MaxEditPhotos - 1) : ImageError(index)
  \/ handleNext_resume

SpecEdit == InitEdit /\ [][NextEdit]_vars

(***************************************************************************)
(* ShareScreen: saving, printing, starting over                            *)
(***************************************************************************)
\* an image of the session whose pixels are not modelled
Image(label) == [kind |-> "image", label |-> label]

\* what the wizard has stored when ShareScreen is mounted: what EditScreen
\* was mounted with, the photos and the composite of EditScreen.handleNext,
\* and the frame of FrameSelectionScreen.handleContinue
SessionAtShare(grid) ==
  updateSession(
    updateSession(SessionAtEdit(grid),
      [editedPhotos |-> Array([k \in 1..getGridCellCount(grid) |-> Photo(k, TRUE)]),
       compositeImage |-> Image("composite")]),
    [selectedFrame |-> [kind |-> "object", id |-> "classic"],
     compositeImage |-> Image("framed composite"),
     originalCompositeImage |-> Image("composite")])

\* the n-th file name the server has answered a save-photo request with
Filename(n) == [kind |-> "filename", n |-> n]

\* lines 1100-1107: the effect that configures the page size
PageSizeEffect(grid) ==
  IF grid.kind \in {"undefined", "null"} THEN Null
  ELSE [kind |-> "object", config |-> getPageSizeFromGrid(grid)]

\* lines 1189-1192: the page size of a print request
PrintPageSize ==
  IF pageSizeConfig # Null THEN pageSizeConfig.config.pageSize
  ELSE getPageSizeFromGrid(GridOrDefault(session.selectedGrid)).pageSize

\* lines 1149-1153: setSavedFilenames(prev => { updated[index] = ... }) for
\* index 0; a state update of a screen that is no longer mounted is dropped
SetSavedFilename(filename) ==
  savedFilenames' = IF route = "/share" THEN <<filename>> ELSE savedFilenames

\* lines 1196-1208: the print-photo request with the filename as handlePrint
\* reads it: <<>> stands for undefined
PrintRequest(filenames) ==
  [filename |-> filenames, pageSize |-> PrintPageSize,
   sessionId |-> session.sessionId, status |-> "sent"]

\* the print buttons pressed so far
PrintsStarted == Len(printRequests) + Cardinality(printCalls)

\* the response to a save-photo request of the auto-save effect (lines
\* 1147-1162): data.success, or an error or a refusal, which is swallowed
savePhoto_response(ok) ==
  /\ saveFetches > 0
  /\ saveFetches' = saveFetches - 1
  /\ IF ok
       THEN /\ filesSaved' = filesSaved + 1
            /\ SetSavedFilename(Filename(filesSaved'))
       ELSE UNCHANGED <<filesSaved, savedFilenames>>
  /\ UNCHANGED <<printCalls, printRequests, pageSizeConfig, printStatus>>
  /\ UNCHANGED <<appVars, payVars, camVars, editVars>>
  /\ UNCHANGED <<psVars, cgVars>>

\* ShareScreen.handlePrint up to its first await: with a saved file name the
\* print request is sent at once; without one savePhoto is called and
\* awaited.  The closure holds the savedFilenames of the render the click
\* was handled in
handlePrint ==
  /\ route = "/share"
  /\ PrintsStarted < MaxPrints
  /\ printStatus' = "printing"
  /\ IF savedFilenames = <<>>
       THEN /\ printCalls' = printCalls \cup
                 {[id |-> PrintsStarted + 1, savedFilenames |-> savedFilenames,
                   stage |-> "saving"]}
            /\ UNCHANGED printRequests
       ELSE /\ printRequests' = Append(printRequests, PrintRequest(savedFilenames))
            /\ UNCHANGED printCalls
  /\ UNCHANGED <<savedFilenames, saveFetches, filesSaved, pageSizeConfig>>
  /\ UNCHANGED <<appVars, payVars, camVars, editVars>>
  /\ UNCHANGED <<psVars, cgVars>>

\* the response to the save-photo request of the handlePrint call c: savePhoto
\* stores the file name if there is one and returns; handlePrint starts its
\* wait of 500 ms
handlePrint_saved(c, ok) ==
  /\ c \in printCalls
  /\ c.stage = "saving"
  /\ printCalls' = (printCalls \ {c}) \cup {[c EXCEPT !.stage = "waiting"]}
  /\ IF ok
       THEN /\ filesSaved' = filesSaved + 1
            /\ SetSavedFilename(Filename(filesSaved'))
       ELSE UNCHANGED <<filesSaved, savedFilenames>>
  /\ UNCHANGED <<saveFetches, printRequests, pageSizeConfig, printStatus>>
  /\ UNCHANGED <<appVars, payVars, camVars, editVars>>
  /\ UNCHANGED <<psVars, cgVars>>

\* the wait of the handlePrint call c is over (lines 1185-1208): the file
\* name is read from the savedFilenames of the closure and the print request
\* is sent
handlePrint_send(c) ==
  /\ c \in printCalls
  /\ c.stage = "waiting"
  /\ printCalls' = printCalls \ {c}
  /\ printRequests' = Append(printRequests, PrintRequest(c.savedFilenames))
  /\ UNCHANGED <<savedFilenames, saveFetches, filesSaved, pageSizeConfig, printStatus>>
  /\ UNCHANGED <<appVars, payVars, camVars, editVars>>
  /\ UNCHANGED <<psVars, cgVars>>

\* the response to the print request i, or its failure (lines 1210-1218),
\* and the status shown for it
handlePrint_response(i, ok) ==
  /\ i \in 1..Len(printRequests)
  /\ printRequests[i].status = "sent"
  /\ printRequests' = [printRequests EXCEPT ![i].status = IF ok THEN "success" ELSE "error"]
  /\ printStatus' = IF route = "/share" THEN printRequests'[i].status ELSE printStatus
  /\ UNCHANGED <<savedFilenames, saveFetches, filesSaved, printCalls, pageSizeConfig>>
  /\ UNCHANGED <<appVars, payVars, camVars, editVars>>
  /\ UNCHANGED <<psVars, cgVars>>

\* lines 1055-1058: the redirect timer of 10 s fires
ThankYouRedirect ==
  /\ route = "/share"
  /\ route' = "/thankyou"
  /\ UNCHANGED <<session, effectDue, idsIssued>>
  /\ UNCHANGED <<payVars, camVars, editVars, shareVars>>
  /\ UNCHANGED <<psVars, cgVars>>

\* ShareScreen.handleStartOver; the welcome screen is mounted
handleStartOver ==
  /\ route = "/share"
  /\ session' = updateSession(session,
                  [sessionId |-> Null, capturedPhotos |-> Null, capturedPhoto |-> Null,
                   editedPhotos |-> Null, editedPhoto |-> Null,
                   paymentStatus |-> Text("pending")])
  /\ route' = "/"
  /\ effectDue' = TRUE
  /\ UNCHANGED idsIssued
  /\ UNCHANGED <<payVars, camVars, editVars, shareVars>>
  /\ UNCHANGED <<psVars, cgVars>>

\* ShareScreen has been mounted and its mount effects have run: the page
\* size is configured from the grid and the composite is being saved
InitShare ==
  /\ NoCalls
  /\ route = "/share"
  /\ \E grid \in grids \cup {Undefined} : session = SessionAtShare(grid)
  /\ effectDue = FALSE
  /\ idsIssued = 1
  /\ PaymentMounted /\ CameraMounted /\ EditMounted
  /\ savedFilenames = <<>>
  /\ saveFetches = 1
  /\ filesSaved = 0
  /\ printCalls = {}
  /\ printRequests = <<>>
  /\ pageSizeConfig = PageSizeEffect(session.selectedGrid)
  /\ printStatus = "idle"

NextShare ==
  \/ \E ok \in BOOLEAN : savePhoto_response(ok)
  \/ handlePrint
  \/ \E c \in printCalls, ok \in BOOLEAN : handlePrint_saved(c, ok)
  \/ \E c \in printCalls : handlePrint_send(c)
  \/ \E i \in 1..MaxPrints, ok \in BOOLEAN : handlePrint_response(i, ok)
  \/ ThankYouRedirect
  \/ handleStartOver
  \/ WelcomeScreen_useEffect

SpecShare == InitShare /\ [][NextShare]_vars

(***************************************************************************)
(* Claims C21 .. C30                                                       *)
(***************************************************************************)
\* the page size the catalog states for the name of an offered layout
CatalogSizeOfName(name) ==
  CASE name = "SINGLE"  -> PageSize(4, 6, "4x6")
    [] name = "V-2 CUT" -> PageSize(2, 4, "2x4")
    [] name = "4 CUT"   -> PageSize(4, 6, "4x6")
    [] name = "6 CUT"   -> PageSize(5, 7, "5x7")

\* C21: the grid object the grid-selection screen stores in the session
\* resolves through getPageSizeFromGrid to the page size the catalog states
\* for its name: SINGLE -> 4x6, V-2 CUT -> 2x4, 4 CUT -> 4x6, 6 CUT -> 5x7.
C21_OfferedLayoutsResolve ==
  \A g \in grids :
    (route = "/camera-filter" /\ session.selectedGrid = g)
      => getPageSizeFromGrid(session.selectedGrid) = CatalogSizeOfName(g.name)

\* C24: every capture whose screenshot loads adds exactly one photo to
\* capturedPhotos, and none is dropped or overwritten, whatever the
\* interleaving of clicks and load events: the load event of a pending
\* screenshot appends its photo to the photos the screen holds.
C24_EveryLoadAppends ==
  [][\A l \in loading :
       (route = "/camera-settings" /\ l \notin loading')
         => capturedPhotos' = Append(capturedPhotos, l.photo)]_vars

\* C25: capturedPhotos never holds more than totalCells photos, and the list
\* written to the session before the wizard navigates to /edit has exactly
\* totalCells photos.
C25_NeverMoreThanTotalCells ==
  /\ Len(capturedPhotos) <= totalCells
  /\ session.capturedPhotos # Undefined
       => Len(session.capturedPhotos.items) = totalCells
  /\ (editTimers > 0 \/ route = "/edit")
       => /\ session.capturedPhotos # Undefined
          /\ Len(session.capturedPhotos.items) = totalCells

\* C25 witness: the six photos of the 6 CUT layout have been written to the
\* session and the edit screen is up
C25_Witness ==
  /\ route = "/edit"
  /\ totalCells = 6
  /\ session.capturedPhotos # Undefined
  /\ Len(session.capturedPhotos.items) = 6

\* C26: every print request sent by the share screen carries the file name
\* under which the composite was saved on the server, never an undefined one,
\* also when Print is pressed before the automatic save has completed.
C26_PrintCarriesSavedFilename ==
  \A i \in 1..Len(printRequests) :
    /\ printRequests[i].filename # <<>>
    /\ \E n \in 1..filesSaved : printRequests[i].filename = <<Filename(n)>>

\* the edit screen works on a multi-cell grid: more than one photo
MultiCell == Len(photos) > 1
\* handleNext has run to its end
EditFinished == route = "/frame-selection"

\* C27 (as claimed): when the edit screen finishes a multi-cell grid, the
\* compositeImage stored in the session is the result of createGridComposite
\* over all edited photos in capture order; if the composition fails, no
\* substitute is stored as compositeImage and the wizard does not advance to
\* frame selection.
C27_CompositeOrNothing ==
  MultiCell =>
    /\ EditFinished =>
         /\ pc = "resolved"
         /\ session.compositeImage = [kind |-> "composite", dataURL |-> result[1],
                                      cells |-> session.editedPhotos.items]
    /\ pc = "rejected" =>
         /\ ~EditFinished
         /\ session.compositeImage = Undefined

\* C27 (amended): when the edit screen finishes a multi-cell grid,
\* editedPhotos holds one photo per captured photo in capture order; if
\* createGridComposite resolved, compositeImage is its result over these
\* photos in that order; if it rejected, the first edited photo is stored as
\* compositeImage instead; in both cases the wizard advances to frame
\* selection as soon as the call has settled and handleNext has gone on.
C27_CompositeOrFirstPhoto ==
  MultiCell =>
    /\ EditFinished =>
         /\ session.editedPhotos.kind = "array"
         /\ Len(session.editedPhotos.items) = Len(photos)
         /\ \A i \in 1..Len(photos) : session.editedPhotos.items[i].photo = photos[i]
         /\ pc \in {"resolved", "rejected"}
         /\ pc = "resolved" =>
              session.compositeImage = [kind |-> "composite", dataURL |-> result[1],
                                        cells |-> session.editedPhotos.items]
         /\ pc = "rejected" =>
              session.compositeImage = session.editedPhotos.items[1]
    /\ (pc \in {"resolved", "rejected"} /\ finalPhotos = <<>>) => EditFinished

\* C27 witness: the composition of a two-photo grid has failed, the wizard
\* is at the frame selection and compositeImage is the first edited photo
C27_Witness ==
  /\ MultiCell
  /\ EditFinished
  /\ pc = "rejected"
  /\ session.compositeImage.kind = "photo"
  /\ session.compositeImage = session.editedPhotos.items[1]

\* C28: mounting the welcome screen initialises the session exactly once:
\* while the user does not act (the welcome screen stays up), a session id
\* that has been stored stays fixed.
C28_SessionIdFixed ==
  [][(route = "/" /\ route' = "/" /\ session.sessionId # Null)
       => session'.sessionId = session.sessionId]_vars

\* C29: whenever Continue is pressed on the grid-selection screen,
\* session.selectedGrid is set to one of the offered grid objects (with id,
\* cols >= 1 and rows >= 1), also when no layout was clicked before.
C29_ContinueStoresOfferedGrid ==
  route = "/camera-filter" =>
    /\ session.selectedGrid \in grids
    /\ Has(session.selectedGrid, "id")
    /\ GridCols(session.selectedGrid) >= 1
    /\ GridRows(session.selectedGrid) >= 1

\* C30: after Start Over on the share screen the session holds no data of
\* the finished session: sessionId, captured and edited photos,
\* compositeImage, selectedGrid, selected frame, camera settings, stickers
\* and payment data are all cleared or back at their initial values.
C30_StartOverClearsSession ==
  route = "/" =>
    /\ session.sessionId # SessionId(1)
    /\ session.capturedPhotos \in {Null, Undefined}
    /\ session.editedPhotos \in {Null, Undefined}
    /\ session.capturedPhoto = Null /\ session.editedPhoto = Null
    /\ session.compositeImage \in {Null, Undefined}
    /\ session.originalCompositeImage \in {Null, Undefined}
    /\ session.selectedGrid \in {Null, Undefined}
    /\ session.selectedFrame \in {Null, Undefined}
    /\ session.cameraSettings \in {Null, Undefined}
    /\ session.stickers \in {Null, Undefined}
    /\ session.paymentStatus = Text("pending")
    /\ session.amountPaid \in {Null, Undefined}
    /\ session.paymentId \in {Null, Undefined}

\* the cell (col, row) the code computes for the photo at index i
CellOfIndex(i) == <<i \div req.grid.rows, i % req.grid.rows>>
\* the cell rectangle [x, x + w) x [y, y + h) of the drawImage call d
CellLeft(d)   == d.cellX
CellRight(d)  == d.cellX + layout[1].cellWidthPx
CellTop(d)    == d.cellY
CellBottom(d) == d.cellY + layout[1].cellHeightPx
CellsDisjoint(d, e) ==
  \/ CellRight(d) <= CellLeft(e) \/ CellRight(e) <= CellLeft(d)
  \/ CellBottom(d) <= CellTop(e) \/ CellBottom(e) <= CellTop(d)

\* C22: for every request that passes validation, i -> (i div rows, i mod rows)
\* is a bijection from the photo indices 0 .. cols*rows-1 onto the cells
\* {0..cols-1} x {0..rows-1}; the cell rectangles are pairwise disjoint,
\* neighbouring cells are separated by exactly margin pixels, and every cell
\* lies inside the canvas with exactly margin pixels between the outermost
\* cells and each canvas edge.
C22_CellsTileCanvas ==
  Resolved =>
    LET l == layout[1]
        m == l.marginSize
        I == DOMAIN draws
    IN  /\ I = 0..(req.grid.cols * req.grid.rows - 1)
        /\ {CellOfIndex(i) : i \in I} = GridCells
        /\ \A i, j \in I : CellOfIndex(i) = CellOfIndex(j) => i = j
        /\ \A i \in I :
             LET d == draws[i]
                 c == CellOfIndex(i)
             IN  /\ d.cellX = m + c[1] * (l.cellWidthPx + m)
                 /\ d.cellY = m + c[2] * (l.cellHeightPx + m)
                 /\ CellLeft(d) >= m /\ CellTop(d) >= m
                 /\ CellRight(d) + m <= canvas[1].width
                 /\ CellBottom(d) + m <= canvas[1].height
                 /\ c[1] = 0 => CellLeft(d) = m
                 /\ c[2] = 0 => CellTop(d) = m
                 /\ c[1] = req.grid.cols - 1 => CellRight(d) + m = canvas[1].width
                 /\ c[2] = req.grid.rows - 1 => CellBottom(d) + m = canvas[1].height
        /\ \A i, j \in I :
             LET d == draws[i]
                 e == draws[j]
                 c == CellOfIndex(i)
                 f == CellOfIndex(j)
             IN  /\ i # j => CellsDisjoint(d, e)
                 /\ (f[1] = c[1] + 1 /\ f[2] = c[2]) => CellLeft(e) - CellRight(d) = m
                 /\ (f[2] = c[2] + 1 /\ f[1] = c[1]) => CellTop(e) - CellBottom(d) = m

\* C22 witness: a rendered 3x2 grid whose photo 3 sits in cell (1, 1), one
\* margin right of photo 1 and one margin below photo 2
C22_Witness ==
  /\ Resolved
  /\ req.grid.cols = 3 /\ req.grid.rows = 2
  /\ layout[1].marginSize > 0
  /\ CellOfIndex(3) = <<1, 1>>
  /\ CellLeft(draws[3]) - CellRight(draws[1]) = layout[1].marginSize
  /\ CellTop(draws[3]) - CellBottom(draws[2]) = layout[1].marginSize

\* the layout the code computes for the request of the call when every photo
\* has the size dims
LayoutOfUniform(dims) ==
  Layout([i \in DOMAIN draws |-> Img(draws[i].img.src, dims)],
         req.grid, req.dpi, req.marginPercent, cellInches[1])
\* the layout the code computes for the request of the call when the photo at
\* index k alone has another size, dims
LayoutWithPhoto(k, dims) ==
  Layout([i \in DOMAIN draws |->
            IF i = k THEN Img(draws[i].img.src, dims) ELSE draws[i].img],
         req.grid, req.dpi, req.marginPercent, cellInches[1])

====
